---- MODULE Spec2Model ----
(***************************************************************************)
(* A model of the TypeScript syntax-lowering transformer                   *)
(* (src/compiler/transformers/ts.ts).                                      *)
(*                                                                         *)
(* The recursive traversal is modelled with an explicit stack: a frame     *)
(* holds the local variables of a call of saveStateAndInvoke or of         *)
(* transformModuleBody that has not returned yet.  An Enter action is the  *)
(* part of the handler before the children are visited, an Exit action     *)
(* the part after them.                                                    *)
(***************************************************************************)
EXTENDS Integers, Sequences, FiniteSets, TLC

VARIABLES
    \* compiler options read by the transformer
    compilerOptions,
    \* state of transformTypeScript (ts.ts:63-87)
    currentSourceFile,
    currentNamespace,
    currentNamespaceContainerName,
    currentLexicalScope,
    currentNameScope,
    currentScopeFirstDeclarationsOfName,
    currentClassHasParameterProperties,
    enabledSubstitutions,
    \* the set-up calls made so far when a class of substitutions was enabled
    registrations,
    \* the calls in progress, the statements produced so far, the nodes seen
    stack,
    emitted,
    nextId,
    \* classes: the aliases by original node id, the variables hoisted into the
    \* enclosing lexical environment, the factory's counter of generated names
    classAliases,
    hoistedVariables,
    nextAutoGenerateId,
    \* print time: the substitutions that apply where the printer is
    applicableSubstitutions,
    \* the last operation applied, with its input and its output
    result

scopeVars == <<compilerOptions, currentSourceFile, currentNamespace,
               currentNamespaceContainerName, currentLexicalScope, currentNameScope,
               currentScopeFirstDeclarationsOfName, currentClassHasParameterProperties,
               enabledSubstitutions, registrations, stack, emitted, nextId>>

classVars == <<classAliases, hoistedVariables, nextAutoGenerateId>>

vars == <<scopeVars, classVars, applicableSubstitutions, result>>

\* What the traversal of scopes leaves alone.
outsideScope == <<classVars, applicableSubstitutions, result>>

----------------------------------------------------------------------------
\* Bounds of the model.
MaxNodes == 3

\* The identifiers that declarations are named with.
Names == {1, 2}
NoNode == 0
NoName == 0

\* TypeScriptSubstitutionFlags (ts.ts:8-15), as a set of flag names.
ClassAliases == "ClassAliases"
NamespaceExports == "NamespaceExports"
NonQualifiedEnumMembers == "NonQualifiedEnumMembers"

ModuleKinds == {"CommonJS", "ES2015"}

\* ScriptTarget values compared by the transformer.
ES3 == 0
ES5 == 1
ES2015 == 2
ESNext == 99

\* classAliases: undefined until substitution for class aliases is enabled,
\* then a map from a class's original node id to its alias (NoAlias: no entry).
NoAlias == [kind |-> "undefined", text |-> NoName, autoGenerateId |-> 0]
UniqueName(text, id) == [kind |-> "UniqueName", text |-> text, autoGenerateId |-> id]
UndefinedAliases == [defined |-> FALSE, at |-> [i \in 1..MaxNodes |-> NoAlias]]

\* No operation applied yet; an input no operation was applied to yet.
NoResult == [op |-> "none"]
Input(node) == [op |-> "input", node |-> node, output |-> <<>>]

----------------------------------------------------------------------------
\* The merge map: undefined, or a map from a declared name to the first
\* declaration recorded for it (NoNode: no entry).
UndefinedMap == [defined |-> FALSE, first |-> [n \in Names |-> NoNode]]

\* A recording in which the last declaration of a name wins.
recordEmittedDeclarationInScope_LastWins(map, name, node) ==
    [defined |-> TRUE,
     first |-> [n \in Names |-> IF n = name THEN node
                                ELSE IF map.defined THEN map.first[n] ELSE NoNode]]

recordEmittedDeclarationInScope(map, name, node) ==
    LET m == IF map.defined THEN map
             ELSE [defined |-> TRUE, first |-> [n \in Names |-> NoNode]]
    IN  IF m.first[name] = NoNode THEN [m EXCEPT !.first[name] = node] ELSE m

isFirstEmittedDeclarationInScope(map, name, node) ==
    IF map.defined THEN map.first[name] = node ELSE TRUE

\* The variables saveStateAndInvoke and transformModuleBody save and restore.
Cur == [currentLexicalScope |-> currentLexicalScope,
        currentNameScope |-> currentNameScope,
        currentScopeFirstDeclarationsOfName |-> currentScopeFirstDeclarationsOfName,
        currentClassHasParameterProperties |-> currentClassHasParameterProperties,
        currentNamespace |-> currentNamespace,
        currentNamespaceContainerName |-> currentNamespaceContainerName]

Assign(s) ==
    /\ currentLexicalScope' = s.currentLexicalScope
    /\ currentNameScope' = s.currentNameScope
    /\ currentScopeFirstDeclarationsOfName' = s.currentScopeFirstDeclarationsOfName
    /\ currentClassHasParameterProperties' = s.currentClassHasParameterProperties
    /\ currentNamespace' = s.currentNamespace
    /\ currentNamespaceContainerName' = s.currentNamespaceContainerName

ScopeKinds == {"SourceFile", "CaseBlock", "ModuleBlock", "Block"}

\* A version that records ambient class and function declarations too.
onBeforeVisitNode_RecordsAmbient(s, node) ==
    IF node.kind \in ScopeKinds
    THEN [s EXCEPT !.currentLexicalScope = node.id,
                   !.currentNameScope = NoNode,
                   !.currentScopeFirstDeclarationsOfName = UndefinedMap]
    ELSE IF node.kind \in {"ClassDeclaration", "FunctionDeclaration"}
    THEN LET s1 == IF node.name # NoName
                   THEN [s EXCEPT !.currentScopeFirstDeclarationsOfName =
                            recordEmittedDeclarationInScope(
                                s.currentScopeFirstDeclarationsOfName, node.name, node.id)]
                   ELSE s
         IN  IF node.kind = "ClassDeclaration" /\ ~node.ambient
             THEN [s1 EXCEPT !.currentNameScope = node.id]
             ELSE s1
    ELSE s

\* onBeforeVisitNode: the state changes made before a node is visited.
onBeforeVisitNode(s, node) ==
    IF node.kind \in ScopeKinds
    THEN [s EXCEPT !.currentLexicalScope = node.id,
                   !.currentNameScope = NoNode,
                   !.currentScopeFirstDeclarationsOfName = UndefinedMap]
    ELSE IF node.kind \in {"ClassDeclaration", "FunctionDeclaration"}
    THEN IF node.ambient THEN s
         ELSE LET s1 == IF node.name # NoName
                        THEN [s EXCEPT !.currentScopeFirstDeclarationsOfName =
                                 recordEmittedDeclarationInScope(
                                     s.currentScopeFirstDeclarationsOfName, node.name, node.id)]
                        ELSE s
              IN  IF node.kind = "ClassDeclaration"
                  THEN [s1 EXCEPT !.currentNameScope = node.id]
                  ELSE s1
    ELSE s

\* saveStateAndInvoke, up to the call of f: the frame holding the saved values.
SavedState(s, node) ==
    [fn |-> "saveStateAndInvoke", node |-> node.id, kind |-> node.kind,
     leaf |-> node.ambient,
     savedCurrentScope |-> s.currentLexicalScope,
     savedCurrentNameScope |-> s.currentNameScope,
     savedCurrentScopeFirstDeclarationsOfName |-> s.currentScopeFirstDeclarationsOfName,
     savedCurrentClassHasParameterProperties |-> s.currentClassHasParameterProperties,
     savedCurrentNamespace |-> NoNode,
     savedCurrentNamespaceContainerName |-> NoNode,
     name |-> NoName, moduleArg |-> <<>>, container |-> NoNode]

\* A restore that leaves the name scope as the visit left it.
RestoreState_KeepsNameScope(s, frame) ==
    LET s1 == IF s.currentLexicalScope # frame.savedCurrentScope
              THEN [s EXCEPT !.currentScopeFirstDeclarationsOfName =
                                 frame.savedCurrentScopeFirstDeclarationsOfName]
              ELSE s
    IN  [s1 EXCEPT !.currentLexicalScope = frame.savedCurrentScope,
                   !.currentClassHasParameterProperties =
                       frame.savedCurrentClassHasParameterProperties]

\* A restore that never puts the saved merge map back.
RestoreState_NeverRestoresMap(s, frame) ==
    [s EXCEPT !.currentLexicalScope = frame.savedCurrentScope,
              !.currentNameScope = frame.savedCurrentNameScope,
              !.currentClassHasParameterProperties =
                  frame.savedCurrentClassHasParameterProperties]

\* A restore that puts the saved merge map back whatever the node was.
RestoreState_AlwaysRestoresMap(s, frame) ==
    [s EXCEPT !.currentScopeFirstDeclarationsOfName =
                  frame.savedCurrentScopeFirstDeclarationsOfName,
              !.currentLexicalScope = frame.savedCurrentScope,
              !.currentNameScope = frame.savedCurrentNameScope,
              !.currentClassHasParameterProperties =
                  frame.savedCurrentClassHasParameterProperties]

\* saveStateAndInvoke, after f returned: the restore.
RestoreState(s, frame) ==
    LET s1 == IF s.currentLexicalScope # frame.savedCurrentScope
              THEN [s EXCEPT !.currentScopeFirstDeclarationsOfName =
                                 frame.savedCurrentScopeFirstDeclarationsOfName]
              ELSE s
    IN  [s1 EXCEPT !.currentLexicalScope = frame.savedCurrentScope,
                   !.currentNameScope = frame.savedCurrentNameScope,
                   !.currentClassHasParameterProperties =
                       frame.savedCurrentClassHasParameterProperties]

Top == stack[Len(stack)]
Pop(st) == SubSeq(st, 1, Len(st) - 1)

----------------------------------------------------------------------------
\* Expressions and statements the transformer builds, as records.  Factory
\* calls whose code is outside this file are kept as uninterpreted terms.
LocalName(name) == [kind |-> "LocalName", ns |-> NoNode, name |-> name]
ExternalModuleOrNamespaceExportName(ns, name) ==
    [kind |-> "ExternalModuleOrNamespaceExportName", ns |-> ns, name |-> name]
ObjectLiteral == [kind |-> "ObjectLiteralExpression"]
Expr(kind) == [kind |-> kind]
\* getExpressionForPropertyName(member, false): the member's name as an expression.
PropertyNameExpr(name) == [kind |-> "PropertyName", name |-> name]
Assignment(l, r) == [kind |-> "Assignment", left |-> l, right |-> r]
LogicalOr(l, r) == [kind |-> "LogicalOr", left |-> l, right |-> r]
ElementAccess(e, a) ==
    [kind |-> "ElementAccessExpression", expression |-> e, argumentExpression |-> a]

\* A statement of the output: its kind, its original node (id, kind, name), the
\* place it was produced in, and for a closure call its body and argument.
Statement(k, node, container, body, arg) ==
    [stmt |-> k, original |-> node.id, originalKind |-> node.kind, name |-> node.name,
     container |-> container, body |-> body, arg |-> arg]

----------------------------------------------------------------------------
\* Enum members.  constantValue is the oracle's answer (resolver.getConstantValue).
ConstantValues == {"undefined", "string", "number"}
InitializerKinds == {"none", "StringLiteral", "NumericLiteral", "Identifier", "AsExpression"}
EnumMembers == [name : Names, constantValue : ConstantValues, initializer : InitializerKinds]

\* visitNode(member.initializer, visitor, isExpression): a node without
\* TypeScript syntax is returned as it is; a type assertion becomes a
\* partially emitted expression (visitAssertionExpression).
VisitInitializer(kind) ==
    IF kind = "AsExpression" THEN "PartiallyEmittedExpression" ELSE kind

\* A rendering that lowers the initializer whenever there is one.
transformEnumMemberDeclarationValue_InitializerFirst(member) ==
    IF member.initializer # "none"
    THEN [value |-> Expr(VisitInitializer(member.initializer)),
          enable |-> member.constantValue = "undefined", lowered |-> TRUE]
    ELSE IF member.constantValue # "undefined"
         THEN [value |-> IF member.constantValue = "string" THEN Expr("StringLiteral")
                         ELSE Expr("NumericLiteral"),
               enable |-> FALSE, lowered |-> FALSE]
         ELSE [value |-> Expr("VoidZero"), enable |-> TRUE, lowered |-> FALSE]

transformEnumMemberDeclarationValue(member) ==
    IF member.constantValue # "undefined"
    THEN [value |-> IF member.constantValue = "string" THEN Expr("StringLiteral")
                    ELSE Expr("NumericLiteral"),
          enable |-> FALSE, lowered |-> FALSE]
    ELSE IF member.initializer # "none"
         THEN [value |-> Expr(VisitInitializer(member.initializer)), enable |-> TRUE,
               lowered |-> TRUE]
         ELSE [value |-> Expr("VoidZero"), enable |-> TRUE, lowered |-> FALSE]

\* A rendering that writes the reverse mapping for every member.
transformEnumMember_AlwaysReverse(member, containerName) ==
    LET name == PropertyNameExpr(member.name)
        valueExpression == transformEnumMemberDeclarationValue(member).value
        innerAssignment == Assignment(ElementAccess(containerName, name), valueExpression)
    IN  [stmt |-> "ExpressionStatement",
         expression |-> Assignment(ElementAccess(containerName, innerAssignment), name)]

transformEnumMember(member, containerName) ==
    LET name == PropertyNameExpr(member.name)
        valueExpression == transformEnumMemberDeclarationValue(member).value
        innerAssignment == Assignment(ElementAccess(containerName, name), valueExpression)
        outerAssignment == IF valueExpression.kind = "StringLiteral"
                           THEN innerAssignment
                           ELSE Assignment(ElementAccess(containerName, innerAssignment), name)
    IN  [stmt |-> "ExpressionStatement", expression |-> outerAssignment]

\* enableSubstitutionForNonQualifiedEnumMembers and its siblings.
enableSubstitution(en, flag) == en \cup {flag}

\* The set-up calls each of them makes the first time: enableSubstitution and
\* enableEmitNotification on the context, and the creation of classAliases.
Registration(flag, call, kind) == [for |-> flag, call |-> call, kind |-> kind]

RegistrationsFor(flag) ==
    IF flag = NonQualifiedEnumMembers
    THEN <<Registration(flag, "enableSubstitution", "Identifier")>>
    ELSE IF flag = ClassAliases
    THEN <<Registration(flag, "enableSubstitution", "Identifier"),
           Registration(flag, "create", "classAliases")>>
    ELSE <<Registration(flag, "enableSubstitution", "Identifier"),
           Registration(flag, "enableSubstitution", "ShorthandPropertyAssignment"),
           Registration(flag, "enableEmitNotification", "ModuleDeclaration")>>

\* A version that makes the calls whether or not the flag is set.
RegistrationsOnEnable_Unguarded(en, reg, flag) == reg \o RegistrationsFor(flag)

\* The calls are made only if the flag is not set yet.
RegistrationsOnEnable(en, reg, flag) ==
    IF flag \notin en THEN reg \o RegistrationsFor(flag) ELSE reg

\* transformEnumMemberDeclarationValue calls
\* enableSubstitutionForNonQualifiedEnumMembers once per member without a
\* constant value.
RECURSIVE RegistrationsOfEnumBody(_, _, _, _)
RegistrationsOfEnumBody(members, i, en, reg) ==
    IF i > Len(members) THEN reg
    ELSE IF transformEnumMemberDeclarationValue(members[i]).enable
    THEN RegistrationsOfEnumBody(members, i + 1,
             enableSubstitution(en, NonQualifiedEnumMembers),
             RegistrationsOnEnable(en, reg, NonQualifiedEnumMembers))
    ELSE RegistrationsOfEnumBody(members, i + 1, en, reg)

\* transformEnumBody: the container name is set for the members and restored.
transformEnumBody(members, localName) ==
    [i \in 1..Len(members) |-> transformEnumMember(members[i], localName)]

EnumBodyEnables(members) ==
    \E i \in 1..Len(members) : transformEnumMemberDeclarationValue(members[i]).enable

\* The members whose initializer the visitor is invoked on.
LoweredInitializers(members) ==
    {i \in 1..Len(members) : transformEnumMemberDeclarationValue(members[i]).lowered}

----------------------------------------------------------------------------
\* Namespaces and enums.
isExportOfNamespace(s, node) == s.currentNamespace # NoNode /\ node.export
isExternalModuleExport(s, node) == s.currentNamespace = NoNode /\ node.export

hasNamespaceQualifiedExportName(s, node, mk) ==
    \/ isExportOfNamespace(s, node)
    \/ /\ isExternalModuleExport(s, node)
       /\ mk \notin {"ES2015", "ES2020", "ES2022", "ESNext", "System"}

\* The argument of the closure call built by visitModuleDeclaration and
\* visitEnumDeclaration: x || (x = {}), or localName = (x || (x = {})).
ModuleArg(s, node, mk) ==
    LET exportName == IF node.export
                      THEN ExternalModuleOrNamespaceExportName(
                               s.currentNamespaceContainerName, node.name)
                      ELSE LocalName(node.name)
        moduleArg == LogicalOr(exportName, Assignment(exportName, ObjectLiteral))
    IN  IF hasNamespaceQualifiedExportName(s, node, mk)
        THEN Assignment(LocalName(node.name), moduleArg)
        ELSE moduleArg

\* addVarForEnumOrModuleDeclaration: the declaration is recorded, and the
\* variable statement is pushed as it is or inside a merge marker.
addVarForEnumOrModuleDeclaration(s, node, container) ==
    LET map == recordEmittedDeclarationInScope(
                   s.currentScopeFirstDeclarationsOfName, node.name, node.id)
        first == isFirstEmittedDeclarationInScope(map, node.name, node.id)
    IN  [s |-> [s EXCEPT !.currentScopeFirstDeclarationsOfName = map],
         varAdded |-> first,
         statement |-> Statement(IF first THEN "VariableStatement"
                                 ELSE "MergeDeclarationMarker",
                                 node, container, <<>>, <<>>)]

shouldEmitEnumDeclaration(node, preserveConstEnums) ==
    ~node.const \/ preserveConstEnums

\* shouldEmitModuleDeclaration: isInstantiatedModule is the binder's answer.
shouldEmitModuleDeclaration(node) == node.instantiated

\* visitTypeScript on an enum declaration (ts.ts:355-360, 529-531) and
\* visitEnumDeclaration.
visitEnumDeclaration(s, en, node, container, mk, preserveConstEnums) ==
    IF node.ambient \/ ~shouldEmitEnumDeclaration(node, preserveConstEnums)
    THEN [s |-> s, en |-> en,
          statements |-> <<Statement("NotEmittedStatement", node, container, <<>>, <<>>)>>]
    ELSE LET added == addVarForEnumOrModuleDeclaration(s, node, container)
             containerName == node.id
             body == transformEnumBody(node.members, containerName)
         IN  [s |-> added.s,
              en |-> IF EnumBodyEnables(node.members)
                     THEN enableSubstitution(en, NonQualifiedEnumMembers) ELSE en,
              statements |->
                  <<added.statement,
                    Statement("ExpressionStatement", node, container, body,
                              ModuleArg(added.s, node, mk)),
                    Statement("EndOfDeclarationMarker", node, container, <<>>, <<>>)>>]

----------------------------------------------------------------------------
\* The traversal.

DefaultOptions ==
    [module |-> "CommonJS", preserveConstEnums |-> FALSE, target |-> ES5,
     importsNotUsedAsValues |-> "Remove", preserveValueImports |-> FALSE,
     isolatedModules |-> FALSE, strictNullChecks |-> FALSE]

\* The state of the parts of the transformer that a specification leaves idle.
IdleClasses ==
    /\ classAliases = UndefinedAliases
    /\ hoistedVariables = <<>>
    /\ nextAutoGenerateId = 1

IdleScope ==
    /\ currentSourceFile = NoNode
    /\ currentNamespace = NoNode
    /\ currentNamespaceContainerName = NoNode
    /\ currentLexicalScope = NoNode
    /\ currentNameScope = NoNode
    /\ currentScopeFirstDeclarationsOfName = UndefinedMap
    /\ currentClassHasParameterProperties = FALSE
    /\ stack = <<>>
    /\ emitted = <<>>
    /\ nextId = 1

\* The option settings the traversal is run under.
ScopeOptions ==
    {DefaultOptions,
     [DefaultOptions EXCEPT !.module = "ES2015", !.preserveConstEnums = TRUE]}

InitScope ==
    /\ compilerOptions \in ScopeOptions
    /\ currentSourceFile = NoNode
    /\ currentNamespace = NoNode
    /\ currentNamespaceContainerName = NoNode
    /\ currentLexicalScope = NoNode
    /\ currentNameScope = NoNode
    /\ currentScopeFirstDeclarationsOfName = UndefinedMap
    /\ currentClassHasParameterProperties = FALSE
    /\ enabledSubstitutions = {}
    /\ registrations = <<>>
    /\ stack = <<>>
    /\ emitted = <<>>
    /\ nextId = 1
    /\ IdleClasses
    /\ applicableSubstitutions = {}
    /\ result = NoResult

\* The place a statement being visited sits in: the scope node, or, for the
\* inner declaration of a dotted namespace a.b, the outer declaration.
Container ==
    IF stack # <<>> /\ Top.fn = "transformModuleBody" THEN Top.node
    ELSE currentLexicalScope

\* A statement can be visited where the innermost call in progress is the
\* visit of a node that has children.
CanVisitChild ==
    /\ stack # <<>>
    /\ Top.fn = "saveStateAndInvoke"
    /\ ~Top.leaf
    /\ nextId <= MaxNodes

\* transformSourceFile, up to the visit of the statements.
BeginTransformSourceFile(isDeclarationFile) ==
    /\ stack = <<>>
    /\ nextId <= MaxNodes
    /\ LET node == [id |-> nextId, kind |-> "SourceFile", name |-> NoName,
                    ambient |-> FALSE]
       IN  IF isDeclarationFile
           THEN UNCHANGED <<currentSourceFile, currentNamespace,
                            currentNamespaceContainerName, currentLexicalScope,
                            currentNameScope, currentScopeFirstDeclarationsOfName,
                            currentClassHasParameterProperties, stack>>
           ELSE /\ currentSourceFile' = node.id
                /\ stack' = Append(stack, SavedState(Cur, node))
                /\ Assign(onBeforeVisitNode(Cur, node))
    /\ nextId' = nextId + 1
    /\ UNCHANGED <<compilerOptions, enabledSubstitutions, registrations, emitted>>
    /\ UNCHANGED outsideScope

\* transformSourceFile, after the statements were visited.
EndTransformSourceFile ==
    /\ stack # <<>>
    /\ Top.fn = "saveStateAndInvoke"
    /\ Top.kind = "SourceFile"
    /\ Assign(RestoreState(Cur, Top))
    /\ currentSourceFile' = NoNode
    /\ stack' = Pop(stack)
    /\ UNCHANGED <<compilerOptions, enabledSubstitutions, registrations, emitted, nextId>>
    /\ UNCHANGED outsideScope

\* saveStateAndInvoke on a block, a case block, a class declaration or a
\* function declaration, up to the visit of its children.  An ambient
\* declaration is replaced by a placeholder and has no child visited.
EnterNode(kind, name, ambient) ==
    /\ CanVisitChild
    /\ kind \in {"Block", "CaseBlock"} => name = NoName /\ ~ambient
    /\ name = NoName /\ kind \notin {"Block", "CaseBlock"} =>
           kind = "ClassDeclaration" /\ ~ambient
    /\ LET node == [id |-> nextId, kind |-> kind, name |-> name, ambient |-> ambient]
           s1 == onBeforeVisitNode(Cur, node)
       IN  /\ stack' = Append(stack, SavedState(Cur, node))
           /\ Assign(s1)
           /\ emitted' =
                  IF kind \in {"Block", "CaseBlock"} THEN emitted
                  ELSE Append(emitted,
                           Statement(IF ambient THEN "NotEmittedStatement" ELSE kind,
                                     node, Container, <<>>, <<>>))
    /\ nextId' = nextId + 1
    /\ UNCHANGED <<compilerOptions, currentSourceFile, enabledSubstitutions, registrations>>
    /\ UNCHANGED outsideScope

\* saveStateAndInvoke on such a node, after f returned.
ExitNode ==
    /\ stack # <<>>
    /\ Top.fn = "saveStateAndInvoke"
    /\ Top.kind \in {"Block", "CaseBlock", "ClassDeclaration", "FunctionDeclaration"}
    /\ Assign(RestoreState(Cur, Top))
    /\ stack' = Pop(stack)
    /\ UNCHANGED <<compilerOptions, currentSourceFile, enabledSubstitutions, registrations, emitted,
                   nextId>>
    /\ UNCHANGED outsideScope

\* transformModuleBody, up to the visit of the body: the frame holding the
\* saved values, with the locals of the visitModuleDeclaration that called it.
ModuleBodyFrame(s, node, bodyKind, container, arg) ==
    [fn |-> "transformModuleBody", node |-> node.id, kind |-> bodyKind,
     leaf |-> FALSE,
     savedCurrentScope |-> NoNode,
     savedCurrentNameScope |-> NoNode,
     savedCurrentScopeFirstDeclarationsOfName |-> s.currentScopeFirstDeclarationsOfName,
     savedCurrentClassHasParameterProperties |-> FALSE,
     savedCurrentNamespace |-> s.currentNamespace,
     savedCurrentNamespaceContainerName |-> s.currentNamespaceContainerName,
     name |-> node.name, moduleArg |-> arg, container |-> container]

EnterModuleBody(s, node) ==
    [s EXCEPT !.currentNamespaceContainerName = node.id,
              !.currentNamespace = node.id,
              !.currentScopeFirstDeclarationsOfName = UndefinedMap]

\* A return that leaves currentNamespace as the body left it.
ExitModuleBody_KeepsNamespace(s, frame) ==
    [s EXCEPT !.currentNamespaceContainerName = frame.savedCurrentNamespaceContainerName,
              !.currentScopeFirstDeclarationsOfName =
                  frame.savedCurrentScopeFirstDeclarationsOfName]

\* transformModuleBody, after the body was visited.
ExitModuleBody(s, frame) ==
    [s EXCEPT !.currentNamespaceContainerName = frame.savedCurrentNamespaceContainerName,
              !.currentNamespace = frame.savedCurrentNamespace,
              !.currentScopeFirstDeclarationsOfName =
                  frame.savedCurrentScopeFirstDeclarationsOfName]

\* The module block that is the body of the namespace declaration with this id.
BodyId(id) == id + MaxNodes

ModuleNode(id, name, export, ambient, instantiated) ==
    [id |-> id, kind |-> "ModuleDeclaration", name |-> name, export |-> export,
     ambient |-> ambient, instantiated |-> instantiated]

\* visitModuleDeclaration of an emitted namespace, up to the visit of the
\* statements of its body (a module block) or of its body (the inner
\* declaration of a dotted namespace); outer: the frames below.
BeginModuleDeclaration(node, dotted, outer) ==
    LET added == addVarForEnumOrModuleDeclaration(Cur, node, Container)
        arg == ModuleArg(added.s, node, compilerOptions.module)
        frame == ModuleBodyFrame(added.s, node,
                     IF dotted THEN "ModuleDeclaration" ELSE "ModuleBlock", Container, arg)
        s2 == EnterModuleBody(added.s, node)
        body == [id |-> BodyId(node.id), kind |-> "ModuleBlock", name |-> NoName,
                 ambient |-> FALSE]
    IN  /\ enabledSubstitutions' = enableSubstitution(enabledSubstitutions, NamespaceExports)
        /\ registrations' = RegistrationsOnEnable(enabledSubstitutions, registrations,
                                                  NamespaceExports)
        /\ emitted' = Append(emitted, added.statement)
        /\ IF dotted
           THEN /\ stack' = outer \o <<frame>>
                /\ Assign(s2)
           ELSE /\ stack' = outer \o <<frame, SavedState(s2, body)>>
                /\ Assign(onBeforeVisitNode(s2, body))

\* The visit of a namespace declaration that is a statement: saveStateAndInvoke,
\* visitTypeScript and visitModuleDeclaration.
EnterModuleDeclaration(name, export, ambient, instantiated, dotted) ==
    /\ CanVisitChild
    /\ LET node == ModuleNode(nextId, name, export, ambient, instantiated)
       IN  IF ambient \/ ~shouldEmitModuleDeclaration(node)
           THEN /\ emitted' = Append(emitted,
                        Statement("NotEmittedStatement", node, Container, <<>>, <<>>))
                /\ Assign(RestoreState(onBeforeVisitNode(Cur, node), SavedState(Cur, node)))
                /\ nextId' = nextId + 1
                /\ UNCHANGED <<stack, enabledSubstitutions, registrations>>
           ELSE /\ BeginModuleDeclaration(node, dotted,
                       Append(stack, SavedState(Cur, node)))
                /\ nextId' = nextId + 1
    /\ UNCHANGED <<compilerOptions, currentSourceFile>>
    /\ UNCHANGED outsideScope

\* visitModuleDeclaration called by transformModuleBody on the inner
\* declaration of a dotted namespace, which counts as exported and is
\* instantiated as its parent is.
VisitDottedBody(name, dotted) ==
    /\ stack # <<>>
    /\ Top.fn = "transformModuleBody"
    /\ Top.kind = "ModuleDeclaration"
    /\ ~Top.leaf
    /\ nextId <= MaxNodes
    /\ BeginModuleDeclaration(ModuleNode(nextId, name, TRUE, FALSE, TRUE), dotted,
                              stack)
    /\ nextId' = nextId + 1
    /\ UNCHANGED <<compilerOptions, currentSourceFile>>
    /\ UNCHANGED outsideScope

\* The rest of visitModuleDeclaration: the body was visited, transformModuleBody
\* restores its saved values and the closure call and the end marker are
\* pushed; then the caller goes on (the outer declaration of a dotted
\* namespace, or the saveStateAndInvoke that visited the statement).
ExitModuleDeclaration ==
    /\ stack # <<>>
    /\ \/ Top.fn = "saveStateAndInvoke" /\ Top.kind = "ModuleBlock"
       \/ Top.fn = "transformModuleBody" /\ Top.leaf
    /\ LET inBlock == Top.fn = "saveStateAndInvoke"
           s1 == IF inBlock THEN RestoreState(Cur, Top) ELSE Cur
           st1 == IF inBlock THEN Pop(stack) ELSE stack
           frame == st1[Len(st1)]
           s2 == ExitModuleBody(s1, frame)
           st2 == Pop(st1)
           caller == st2[Len(st2)]
           node == [id |-> frame.node, kind |-> "ModuleDeclaration", name |-> frame.name]
       IN  /\ emitted' = emitted \o
                  <<Statement("ExpressionStatement", node, frame.container, <<>>,
                              frame.moduleArg),
                    Statement("EndOfDeclarationMarker", node, frame.container, <<>>, <<>>)>>
           /\ IF caller.fn = "transformModuleBody"
              THEN /\ stack' = Pop(st2) \o <<[caller EXCEPT !.leaf = TRUE]>>
                   /\ Assign(s2)
              ELSE /\ stack' = Pop(st2)
                   /\ Assign(RestoreState(s2, caller))
    /\ UNCHANGED <<compilerOptions, currentSourceFile, enabledSubstitutions, registrations, nextId>>
    /\ UNCHANGED outsideScope

\* The enum bodies visited in the traversal: a member with a constant value,
\* a member without one.
ScopeEnumBodies ==
    {<<[name |-> 1, constantValue |-> "number", initializer |-> "none"]>>,
     <<[name |-> 1, constantValue |-> "undefined", initializer |-> "Identifier"]>>}

\* The visit of an enum declaration that is a statement: saveStateAndInvoke,
\* visitTypeScript and visitEnumDeclaration.
VisitEnumDeclaration(name, const, export, ambient, members) ==
    /\ CanVisitChild
    /\ LET node == [id |-> nextId, kind |-> "EnumDeclaration", name |-> name,
                    export |-> export, ambient |-> ambient, const |-> const,
                    members |-> members]
           r == visitEnumDeclaration(onBeforeVisitNode(Cur, node), enabledSubstitutions,
                    node, Container, compilerOptions.module,
                    compilerOptions.preserveConstEnums)
       IN  /\ Assign(RestoreState(r.s, SavedState(Cur, node)))
           /\ enabledSubstitutions' = r.en
           /\ registrations' =
                  IF node.ambient
                     \/ ~shouldEmitEnumDeclaration(node, compilerOptions.preserveConstEnums)
                  THEN registrations
                  ELSE RegistrationsOfEnumBody(node.members, 1, enabledSubstitutions,
                                               registrations)
           /\ emitted' = emitted \o r.statements
    /\ nextId' = nextId + 1
    /\ UNCHANGED <<compilerOptions, currentSourceFile, stack>>
    /\ UNCHANGED outsideScope

NextScope ==
    \/ \E d \in BOOLEAN : BeginTransformSourceFile(d)
    \/ EndTransformSourceFile
    \/ \E k \in {"Block", "CaseBlock", "ClassDeclaration", "FunctionDeclaration"},
          n \in Names \cup {NoName}, a \in BOOLEAN : EnterNode(k, n, a)
    \/ ExitNode
    \/ \E n \in Names, e \in BOOLEAN, a \in BOOLEAN, i \in BOOLEAN, d \in BOOLEAN :
          EnterModuleDeclaration(n, e, a, i, d)
    \/ \E n \in Names, d \in BOOLEAN : VisitDottedBody(n, d)
    \/ ExitModuleDeclaration
    \/ \E n \in Names, c \in BOOLEAN, e \in BOOLEAN, a \in BOOLEAN,
          m \in ScopeEnumBodies : VisitEnumDeclaration(n, c, e, a, m)

Init == InitScope
Next == NextScope
Spec == Init /\ [][Next]_vars

----------------------------------------------------------------------------
\* Classes.
\*
\* A class member: its kind and name, whether it is static, carries
\* decorators, has a body, has an initializer, and its parameters (each with
\* its name kind, its modifiers and whether it carries decorators).


isStatic(m) == m.static

SomeParameterDecorated(m) == \E i \in 1..Len(m.parameters) : m.parameters[i].decorators

\* nodeIsDecorated, for a class member.
nodeIsDecorated(m) ==
    /\ m.decorators
    /\ CASE m.kind = "PropertyDeclaration" -> TRUE
         [] m.kind \in {"GetAccessor", "SetAccessor", "MethodDeclaration"} -> m.body
         [] OTHER -> FALSE

\* childIsDecorated, for a class member: a parameter can be decorated when
\* the function it belongs to has a body.
childIsDecorated(m) ==
    /\ m.kind \in {"MethodDeclaration", "SetAccessor", "Constructor"}
    /\ m.body
    /\ SomeParameterDecorated(m)

nodeOrChildIsDecorated(m) == nodeIsDecorated(m) \/ childIsDecorated(m)

\* getFirstConstructorWithBody: its index among the members, 0 when none.
getFirstConstructorWithBody(node) ==
    LET cs == {i \in 1..Len(node.members) :
                  node.members[i].kind = "Constructor" /\ node.members[i].body}
    IN  IF cs = {} THEN 0 ELSE CHOOSE i \in cs : \A j \in cs : i <= j

classOrConstructorParameterIsDecorated(node) ==
    \/ node.decorators
    \/ LET c == getFirstConstructorWithBody(node)
       IN  c # 0 /\ childIsDecorated(node.members[c])

\* childIsDecorated, for a class.
classChildIsDecorated(node) ==
    \E i \in 1..Len(node.members) : nodeOrChildIsDecorated(node.members[i])

isDecoratedClassElement(m, isStaticElement) ==
    nodeOrChildIsDecorated(m) /\ isStaticElement = isStatic(m)

\* A selection of the decorated members that ignores whether they are static.
getDecoratedClassElements_AnyStaticness(node, isStaticElement) ==
    SelectSeq([i \in 1..Len(node.members) |-> i],
              LAMBDA i : nodeOrChildIsDecorated(node.members[i]))

\* getDecoratedClassElements: the indices of the members kept, in source order.
getDecoratedClassElements(node, isStaticElement) ==
    SelectSeq([i \in 1..Len(node.members) |-> i],
              LAMBDA i : isDecoratedClassElement(node.members[i], isStaticElement))

\* getAllAccessorDeclarations: the accessors of the class with the name and
\* the staticness of member i, by position.
getAllAccessorDeclarations(node, i) ==
    LET same == {j \in 1..Len(node.members) :
                    /\ node.members[j].kind \in {"GetAccessor", "SetAccessor"}
                    /\ node.members[j].static = node.members[i].static
                    /\ node.members[j].name = node.members[i].name}
        Min(S) == IF S = {} THEN 0 ELSE CHOOSE x \in S : \A y \in S : x <= y
        first == Min(same)
        second == Min(same \ {first})
        sets == {j \in same : node.members[j].kind = "SetAccessor"}
    IN  [firstAccessor |-> first, secondAccessor |-> second, setAccessor |-> Min(sets)]

NoDecorators == [defined |-> FALSE, decorators |-> FALSE, parameters |-> FALSE]
AllDecorators(d, p) == [defined |-> TRUE, decorators |-> d, parameters |-> p]

getAllDecoratorsOfAccessors(node, i) ==
    LET accessor == node.members[i]
        all == getAllAccessorDeclarations(node, i)
        firstAccessorWithDecorators ==
            IF node.members[all.firstAccessor].decorators THEN all.firstAccessor
            ELSE IF all.secondAccessor # 0 /\ node.members[all.secondAccessor].decorators
                 THEN all.secondAccessor
                 ELSE 0
        parameters == all.setAccessor # 0 /\ SomeParameterDecorated(node.members[all.setAccessor])
    IN  IF ~accessor.body THEN NoDecorators
        ELSE IF firstAccessorWithDecorators = 0 \/ i # firstAccessorWithDecorators
        THEN NoDecorators
        ELSE AllDecorators(TRUE, parameters)

getAllDecoratorsOfMethod(method) ==
    IF ~method.body THEN NoDecorators
    ELSE IF ~method.decorators /\ ~SomeParameterDecorated(method) THEN NoDecorators
    ELSE AllDecorators(method.decorators, SomeParameterDecorated(method))

getAllDecoratorsOfProperty(property) ==
    IF ~property.decorators THEN NoDecorators ELSE AllDecorators(TRUE, FALSE)

getAllDecoratorsOfClassElement(node, i) ==
    LET member == node.members[i]
    IN  CASE member.kind \in {"GetAccessor", "SetAccessor"} ->
                 getAllDecoratorsOfAccessors(node, i)
          [] member.kind = "MethodDeclaration" -> getAllDecoratorsOfMethod(member)
          [] member.kind = "PropertyDeclaration" -> getAllDecoratorsOfProperty(member)
          [] OTHER -> NoDecorators

getAllDecoratorsOfConstructor(node) ==
    LET c == getFirstConstructorWithBody(node)
        parameters == c # 0 /\ SomeParameterDecorated(node.members[c])
    IN  IF ~node.decorators /\ ~parameters THEN NoDecorators
        ELSE AllDecorators(node.decorators, parameters)

\* generateClassElementDecorationExpression: the __decorate call for member
\* i, or nothing.
generateClassElementDecorationExpression(node, i, languageVersion) ==
    LET allDecorators == getAllDecoratorsOfClassElement(node, i)
        member == node.members[i]
    IN  IF ~allDecorators.defined THEN <<>>
        ELSE <<[kind |-> "DecorateHelper",
                decorators |-> allDecorators,
                prefix |-> IF isStatic(member) THEN "DeclarationName" ELSE "ClassPrototype",
                member |-> i,
                descriptor |-> IF languageVersion > ES3
                               THEN IF member.kind = "PropertyDeclaration"
                                    THEN "VoidZero" ELSE "Null"
                               ELSE "undefined"]>>

RECURSIVE Flatten(_)
Flatten(ss) == IF ss = <<>> THEN <<>> ELSE Head(ss) \o Flatten(Tail(ss))

ExpressionStatement(e) == [stmt |-> "ExpressionStatement", expression |-> e]

\* generateClassElementDecorationExpressions with expressionToStatement: the
\* statements that addClassElementDecorationStatements adds.
ClassElementDecorationStatements(node, isStaticElement, languageVersion) ==
    LET members == getDecoratedClassElements(node, isStaticElement)
        exprs == Flatten([k \in 1..Len(members) |->
                     generateClassElementDecorationExpression(node, members[k],
                                                              languageVersion)])
    IN  [k \in 1..Len(exprs) |-> ExpressionStatement(exprs[k])]

\* Constructors and parameter properties.  A constructor's statements are
\* prologue directives, super calls, TypeScript-only declarations and other
\* statements; each keeps its position in the original body as its id.

isParameterPropertyDeclaration(p) == p.modifier

\* The general visitor on a statement of a function body: a declaration that
\* is TypeScript only is replaced by a placeholder, nothing is removed.
VisitStatement(st) ==
    IF st.kind = "InterfaceDeclaration"
    THEN [stmt |-> "NotEmittedStatement", original |-> st.id, parameter |-> 0]
    ELSE [stmt |-> st.kind, original |-> st.id, parameter |-> 0]

\* visitNodes(statements, visitor, isStatement, start)
VisitStatements(statements, start) ==
    [k \in 1..(Len(statements) - start) |-> VisitStatement(statements[start + k])]

\* factory.copyPrologue: the number of leading prologue directives.
RECURSIVE copyPrologue(_)
copyPrologue(statements) ==
    IF statements # <<>> /\ Head(statements).kind = "PrologueDirective"
    THEN 1 + copyPrologue(Tail(statements))
    ELSE 0

\* addPrologueDirectivesAndInitialSuperCall: the statements copied to the
\* front of the result and the index of the first statement not copied.
addPrologueDirectivesAndInitialSuperCall(ctor) ==
    LET statements == ctor.statements
        index == copyPrologue(statements)
        prologue == [k \in 1..index |-> VisitStatement(statements[k])]
    IN  IF ~ctor.body THEN [statements |-> <<>>, index |-> 0]
        ELSE IF index = Len(statements) THEN [statements |-> prologue, index |-> index]
        ELSE IF statements[index + 1].kind = "SuperCall"
        THEN [statements |-> Append(prologue, VisitStatement(statements[index + 1])),
              index |-> index + 1]
        ELSE [statements |-> prologue, index |-> index]

\* transformParameterWithPropertyAssignment: this.x = x, or nothing when the
\* name is a binding pattern.
transformParameterWithPropertyAssignment(p) ==
    IF p.nameKind # "Identifier" THEN <<>>
    ELSE <<[stmt |-> "ParameterPropertyAssignment", original |-> 0, parameter |-> p.id]>>

\* A lowering that adds the existing statements from the start of the body.
RemainingStatements_FromStart(statements, indexOfFirstStatement) ==
    VisitStatements(statements, 0)

\* The existing statements added after the assignments (ts.ts:1956).
RemainingStatements(statements, indexOfFirstStatement) ==
    VisitStatements(statements, indexOfFirstStatement)

transformConstructorBody(ctor) ==
    LET parametersWithPropertyAssignments ==
            SelectSeq(ctor.parameters, isParameterPropertyDeclaration)
        start == addPrologueDirectivesAndInitialSuperCall(ctor)
    IN  IF parametersWithPropertyAssignments = <<>>
        THEN VisitStatements(ctor.statements, 0)
        ELSE start.statements
             \o Flatten([k \in 1..Len(parametersWithPropertyAssignments) |->
                    transformParameterWithPropertyAssignment(
                        parametersWithPropertyAssignments[k])])
             \o RemainingStatements(ctor.statements, start.index)

\* A function-like declaration is not emitted if it has no body.
shouldEmitFunctionLikeDeclaration(node) == node.body

\* An accessor is not emitted if it has no body and is abstract.
shouldEmitAccessorDeclaration_WithBodyOnly(node) == node.body

shouldEmitAccessorDeclaration(node) == ~(~node.body /\ node.abstract)

\* visitFunctionBody(node.body, visitor, context) || factory.createBlock([]):
\* the visited body, or a block created in its place when there is none.
FunctionBodyOrCreatedBlock(node) == IF node.body THEN "visited" ELSE "created"

\* classElementVisitor on member i of the class: the members it yields.
classElementVisitor(node, i) ==
    LET m == node.members[i]
    IN  CASE m.kind = "Constructor" ->
                 IF ~shouldEmitFunctionLikeDeclaration(m) THEN <<>>
                 ELSE <<[kind |-> "Constructor", original |-> i, parameter |-> 0,
                         initializer |-> FALSE, body |-> transformConstructorBody(m),
                         block |-> "visited"]>>
          [] m.kind = "PropertyDeclaration" ->
                 <<[kind |-> "PropertyDeclaration", original |-> i, parameter |-> 0,
                    initializer |-> m.initializer, body |-> <<>>, block |-> "none"]>>
          [] m.kind = "MethodDeclaration" ->
                 IF ~shouldEmitFunctionLikeDeclaration(m) THEN <<>>
                 ELSE <<[kind |-> m.kind, original |-> i, parameter |-> 0,
                         initializer |-> FALSE, body |-> <<>>, block |-> "visited"]>>
          [] OTHER ->
                 IF ~shouldEmitAccessorDeclaration(m) THEN <<>>
                 ELSE <<[kind |-> m.kind, original |-> i, parameter |-> 0,
                         initializer |-> FALSE, body |-> <<>>,
                         block |-> FunctionBodyOrCreatedBlock(m)]>>

\* The order transformClassMembers builds its result in (ts.ts:892-906).
OrderClassMembers(promoted, visited) == promoted \o visited

transformClassMembers(node) ==
    LET c == getFirstConstructorWithBody(node)
        parametersWithPropertyAssignments ==
            IF c = 0 THEN <<>>
            ELSE SelectSeq(node.members[c].parameters, isParameterPropertyDeclaration)
        named == SelectSeq(parametersWithPropertyAssignments,
                           LAMBDA p : p.nameKind = "Identifier")
        promoted == [k \in 1..Len(named) |->
                        [kind |-> "PropertyDeclaration", original |-> 0,
                         parameter |-> named[k].id, initializer |-> FALSE,
                         body |-> <<>>]]
        visited == Flatten([i \in 1..Len(node.members) |-> classElementVisitor(node, i)])
    IN  OrderClassMembers(promoted, visited)

----------------------------------------------------------------------------
\* Class declarations.  c is the part of the transformer's state that
\* lowering a class reads and writes: classAliases, enabledSubstitutions,
\* the variables hoisted into the enclosing lexical environment, and the
\* factory's counter for generated names.

ClassContext ==
    [classAliases |-> classAliases, enabledSubstitutions |-> enabledSubstitutions,
     registrations |-> registrations,
     hoisted |-> hoistedVariables, nextAutoGenerateId |-> nextAutoGenerateId]

ClassEnv ==
    [currentNamespace |-> currentNamespace,
     currentNamespaceContainerName |-> currentNamespaceContainerName,
     languageVersion |-> compilerOptions.target]

\* factory.getInternalName, getLocalName, getDeclarationName, getGeneratedNameForNode
NameOfNode(kind, node) == [kind |-> kind, node |-> node.id, text |-> node.name]

enableSubstitutionForClassAliases(c) ==
    IF ClassAliases \notin c.enabledSubstitutions
    THEN [c EXCEPT !.enabledSubstitutions = @ \cup {ClassAliases},
                   !.registrations = RegistrationsOnEnable(c.enabledSubstitutions, @,
                                                           ClassAliases),
                   !.classAliases = [defined |-> TRUE,
                                     at |-> [i \in 1..MaxNodes |-> NoAlias]]]
    ELSE c

\* A rendering that creates and hoists the alias and does not record it.
getClassAliasIfNeeded_NotRecorded(node, c) ==
    IF node.classWithConstructorReference
    THEN LET c1 == enableSubstitutionForClassAliases(c)
             classAlias == UniqueName(node.name, c1.nextAutoGenerateId)
         IN  [c |-> [c1 EXCEPT !.nextAutoGenerateId = @ + 1,
                               !.hoisted = Append(@, classAlias)],
              classAlias |-> classAlias]
    ELSE [c |-> c, classAlias |-> NoAlias]

\* A version that creates the alias without asking the oracle.
getClassAliasIfNeeded_Always(node, c) ==
    LET c1 == enableSubstitutionForClassAliases(c)
        classAlias == UniqueName(node.name, c1.nextAutoGenerateId)
    IN  [c |-> [c1 EXCEPT !.nextAutoGenerateId = @ + 1,
                          !.classAliases.at[node.id] = classAlias,
                          !.hoisted = Append(@, classAlias)],
         classAlias |-> classAlias]

getClassAliasIfNeeded(node, c) ==
    IF node.classWithConstructorReference
    THEN LET c1 == enableSubstitutionForClassAliases(c)
             classAlias == UniqueName(node.name, c1.nextAutoGenerateId)
         IN  [c |-> [c1 EXCEPT !.nextAutoGenerateId = @ + 1,
                               !.classAliases.at[node.id] = classAlias,
                               !.hoisted = Append(@, classAlias)],
              classAlias |-> classAlias]
    ELSE [c |-> c, classAlias |-> NoAlias]

\* getProperties(node, requireInitializer = true, isStatic = true)
StaticInitializedProperties(node) ==
    SelectSeq(node.members,
              LAMBDA m : m.kind = "PropertyDeclaration" /\ m.static /\ m.initializer)

isNamedExternalModuleExport(env, node) ==
    isExternalModuleExport(env, node) /\ ~node.default
isDefaultExternalModuleExport(env, node) ==
    isExternalModuleExport(env, node) /\ node.default

\* ClassFacts, as a set of flag names.
HasAnyDecorators == {"HasConstructorDecorators", "HasMemberDecorators"}
NeedsName == {"HasStaticInitializedProperties", "HasMemberDecorators"}
MayNeedImmediatelyInvokedFunctionExpression ==
    HasAnyDecorators \cup {"HasStaticInitializedProperties"}

getClassFacts(node, env) ==
    LET f1 == IF StaticInitializedProperties(node) # <<>>
              THEN {"HasStaticInitializedProperties"} ELSE {}
        f2 == IF node.derived THEN {"IsDerivedClass"} ELSE {}
        f3 == IF classOrConstructorParameterIsDecorated(node)
              THEN {"HasConstructorDecorators"} ELSE {}
        f4 == IF classChildIsDecorated(node) THEN {"HasMemberDecorators"} ELSE {}
        f5 == IF isExportOfNamespace(env, node) THEN {"IsExportOfNamespace"}
              ELSE IF isDefaultExternalModuleExport(env, node)
              THEN {"IsDefaultExternalExport"}
              ELSE IF isNamedExternalModuleExport(env, node)
              THEN {"IsNamedExternalExport"}
              ELSE {}
        facts == f1 \cup f2 \cup f3 \cup f4 \cup f5
    IN  IF env.languageVersion <= ES5
           /\ facts \cap MayNeedImmediatelyInvokedFunctionExpression # {}
        THEN facts \cup {"UseImmediatelyInvokedFunctionExpression"}
        ELSE facts

\* hasTypeScriptClassSyntax on a member: it carries decorators, a decorated
\* parameter or a parameter property, it is a signature with no body, or it
\* is a static property with an initializer.
hasTypeScriptClassSyntax(m) ==
    \/ m.decorators
    \/ m.kind = "PropertyDeclaration" /\ m.static /\ m.initializer
    \/ SomeParameterDecorated(m)
    \/ \E i \in 1..Len(m.parameters) : m.parameters[i].modifier
    \/ m.kind \in {"MethodDeclaration", "Constructor"} /\ ~m.body

isClassLikeDeclarationWithTypeScriptSyntax(node) ==
    \/ node.decorators
    \/ node.typeParameters
    \/ \E i \in 1..Len(node.members) : hasTypeScriptClassSyntax(node.members[i])

\* modifierVisitor over the modifiers of the class.
ClassModifiers(node, env) ==
    (IF node.export /\ env.currentNamespace = NoNode THEN <<"export">> ELSE <<>>)
    \o (IF node.default THEN <<"default">> ELSE <<>>)

ClassName(node, facts) ==
    IF node.name # NoName THEN NameOfNode("Identifier", node)
    ELSE IF facts \cap NeedsName # {} THEN NameOfNode("GeneratedNameForNode", node)
    ELSE NameOfNode("undefined", node)

\* A head that keeps the modifiers whatever the facts.
createClassDeclarationHeadWithoutDecorators_KeepsModifiers(node, name, facts, env) ==
    [stmt |-> "ClassDeclaration",
     original |-> node.id,
     modifiers |-> ClassModifiers(node, env),
     name |-> name,
     members |-> transformClassMembers(node)]

createClassDeclarationHeadWithoutDecorators(node, name, facts, env) ==
    [stmt |-> "ClassDeclaration",
     original |-> node.id,
     modifiers |-> IF "UseImmediatelyInvokedFunctionExpression" \notin facts
                   THEN ClassModifiers(node, env) ELSE <<>>,
     name |-> name,
     members |-> transformClassMembers(node)]

createClassDeclarationHeadWithDecorators(node, name, c, env) ==
    LET r == getClassAliasIfNeeded(node, c)
        declName == IF env.languageVersion <= ES2015
                    THEN NameOfNode("InternalName", node)
                    ELSE NameOfNode("LocalName", node)
        classExpression == [kind |-> "ClassExpression", name |-> name,
                            members |-> transformClassMembers(node)]
    IN  [c |-> r.c,
         statement |-> [stmt |-> "VariableStatement",
                        original |-> node.id,
                        flags |-> "Let",
                        name |-> declName,
                        initializer |-> IF r.classAlias # NoAlias
                                        THEN Assignment(r.classAlias, classExpression)
                                        ELSE classExpression]]

\* generateConstructorDecorationExpression, as the statement that
\* addConstructorDecorationStatement adds, or nothing.
ConstructorDecorationStatement(node, c, env) ==
    LET allDecorators == getAllDecoratorsOfConstructor(node)
        classAlias == IF c.classAliases.defined THEN c.classAliases.at[node.id]
                      ELSE NoAlias
        localName == IF env.languageVersion <= ES2015
                     THEN NameOfNode("InternalName", node)
                     ELSE NameOfNode("LocalName", node)
        decorate == [kind |-> "DecorateHelper", decorators |-> allDecorators,
                     target |-> localName]
    IN  IF ~allDecorators.defined THEN <<>>
        ELSE <<ExpressionStatement(
                  Assignment(localName,
                             IF classAlias # NoAlias
                             THEN Assignment(classAlias, decorate)
                             ELSE decorate))>>

\* The statements accumulated by visitClassDeclaration (ts.ts:612-618).
AccumulatedClassStatements(node, classStatement, c, env) ==
    <<classStatement>>
    \o ClassElementDecorationStatements(node, FALSE, env.languageVersion)
    \o ClassElementDecorationStatements(node, TRUE, env.languageVersion)
    \o ConstructorDecorationStatement(node, c, env)

\* visitClassDeclaration, from its last step to its first.  Each step takes
\* what the steps before it computed.

\* ts.ts:685-691: the end-of-declaration marker.
EndOfClassDeclaration(node, c, facts, accumulated, statements) ==
    [c |-> c, accumulated |-> accumulated, facts |-> facts,
     statements |-> IF Len(statements) > 1
                    THEN Append(statements,
                                [stmt |-> "EndOfDeclarationMarker", original |-> node.id])
                    ELSE statements]

\* A version that adds the export statement for every exported class,
\* wrapped or decorated or not.
ClassExportStatements_WheneverExported(node, env, facts) ==
    IF "IsExportOfNamespace" \in facts
    THEN <<ExpressionStatement(
              Assignment([kind |-> "ExternalModuleOrNamespaceExportName",
                          ns |-> env.currentNamespaceContainerName,
                          node |-> node.id],
                         NameOfNode("LocalName", node)))>>
    ELSE IF "IsDefaultExternalExport" \in facts
    THEN <<[stmt |-> "ExportDefault", expression |-> NameOfNode("LocalName", node)]>>
    ELSE IF "IsNamedExternalExport" \in facts
    THEN <<[stmt |-> "ExternalModuleExport",
            expression |-> NameOfNode("LocalName", node)]>>
    ELSE <<>>

\* ts.ts:673-683: the export of the class.
ClassExportStatements(node, env, facts) ==
    IF "IsExportOfNamespace" \in facts
    THEN <<ExpressionStatement(
              Assignment([kind |-> "ExternalModuleOrNamespaceExportName",
                          ns |-> env.currentNamespaceContainerName,
                          node |-> node.id],
                         NameOfNode("LocalName", node)))>>
    ELSE IF "UseImmediatelyInvokedFunctionExpression" \in facts
            \/ "HasConstructorDecorators" \in facts
    THEN IF "IsDefaultExternalExport" \in facts
         THEN <<[stmt |-> "ExportDefault", expression |-> NameOfNode("LocalName", node)]>>
         ELSE IF "IsNamedExternalExport" \in facts
         THEN <<[stmt |-> "ExternalModuleExport",
                 expression |-> NameOfNode("LocalName", node)]>>
         ELSE <<>>
    ELSE <<>>

\* ts.ts:620-668: the wrapper.  hoisted are the variables hoisted since
\* startLexicalEnvironment; they are declared inside the wrapper.
WrapClassStatements(node, accumulated, hoisted) ==
    <<[stmt |-> "VariableStatement",
       original |-> node.id,
       flags |-> "None",
       name |-> NameOfNode("LocalName", node),
       initializer |->
           [kind |-> "ImmediatelyInvokedArrowFunction",
            statements |->
                (IF hoisted = <<>> THEN <<>>
                 ELSE <<[stmt |-> "HoistedVariableStatement", names |-> hoisted]>>)
                \o accumulated
                \o <<[stmt |-> "ReturnStatement",
                      expression |-> NameOfNode("InternalName", node)]>>]]>>

\* ts.ts:620-691
FinishClassDeclaration(node, c, env, facts, headc, accumulated) ==
    IF "UseImmediatelyInvokedFunctionExpression" \in facts
    THEN EndOfClassDeclaration(
             node, [headc EXCEPT !.hoisted = c.hoisted], facts, accumulated,
             WrapClassStatements(node, accumulated,
                                 SubSeq(headc.hoisted, Len(c.hoisted) + 1,
                                        Len(headc.hoisted)))
             \o ClassExportStatements(node, env, facts))
    ELSE EndOfClassDeclaration(node, headc, facts, accumulated,
                               accumulated \o ClassExportStatements(node, env, facts))

\* ts.ts:612-618
AccumulateClassStatements(node, c, env, facts, head) ==
    FinishClassDeclaration(node, c, env, facts, head.c,
        AccumulatedClassStatements(node, head.statement, head.c, env))

\* ts.ts:607-610
ClassStatement(node, c, env, facts) ==
    IF "HasConstructorDecorators" \in facts
    THEN createClassDeclarationHeadWithDecorators(node, ClassName(node, facts), c, env)
    ELSE [c |-> c,
          statement |-> createClassDeclarationHeadWithoutDecorators(
                            node, ClassName(node, facts), facts, env)]

\* visitClassDeclaration: the state after the visit, the statements returned,
\* and the statements accumulated before any wrapping.
visitClassDeclaration(node, c, env) ==
    IF ~isClassLikeDeclarationWithTypeScriptSyntax(node)
       /\ ~(env.currentNamespace # NoNode /\ node.export)
    THEN [c |-> c, accumulated |-> <<>>, facts |-> {},
          statements |-> <<[stmt |-> "ClassDeclaration", original |-> node.id,
                            visitEachChild |-> TRUE]>>]
    ELSE LET WithFacts(facts) ==
                 AccumulateClassStatements(node, c, env, facts,
                                           ClassStatement(node, c, env, facts))
         IN  WithFacts(getClassFacts(node, env))

\* Print time: an identifier in expression position, with the oracle's
\* answers about it.
trySubstituteClassAlias(node, en, aliases) ==
    IF /\ ClassAliases \in en
       /\ node.constructorReferenceInClass
       /\ node.declaration # NoNode
       /\ aliases.at[node.declaration] # NoAlias
    THEN [aliases.at[node.declaration] EXCEPT !.kind = "CloneOfUniqueName"]
    ELSE NoAlias

\* A version that looks at what is enabled, not at what applies where the
\* printer is.
trySubstituteNamespaceExportedName_IgnoresApplicable(node, en, applicable) ==
    IF /\ en # {}
       /\ ~node.generated
       /\ ~node.localName
       /\ node.exportContainer \notin {"none", "SourceFile"}
       /\ \/ NamespaceExports \in en /\ node.exportContainer = "ModuleDeclaration"
          \/ NonQualifiedEnumMembers \in en /\ node.exportContainer = "EnumDeclaration"
    THEN [kind |-> "PropertyAccessExpression", text |-> node.text, autoGenerateId |-> 0]
    ELSE NoAlias

trySubstituteNamespaceExportedName(node, en, applicable) ==
    IF /\ en \cap applicable # {}
       /\ ~node.generated
       /\ ~node.localName
       /\ node.exportContainer \notin {"none", "SourceFile"}
       /\ \/ NamespaceExports \in applicable /\ node.exportContainer = "ModuleDeclaration"
          \/ NonQualifiedEnumMembers \in applicable /\ node.exportContainer = "EnumDeclaration"
    THEN [kind |-> "PropertyAccessExpression", text |-> node.text, autoGenerateId |-> 0]
    ELSE NoAlias

substituteExpressionIdentifier(node, en, aliases, applicable) ==
    LET a == trySubstituteClassAlias(node, en, aliases)
        n == trySubstituteNamespaceExportedName(node, en, applicable)
    IN  IF a # NoAlias THEN a
        ELSE IF n # NoAlias THEN n
        ELSE [kind |-> "Identifier", text |-> node.text, autoGenerateId |-> 0]

----------------------------------------------------------------------------
\* The lowering of class declarations, and the printer's substitution of
\* identifiers afterwards.

MaxMembers == 2

SeqsUpTo(S, n) == UNION {[1..k -> S] : k \in 0..n}

Parameter(id, nameKind, modifier, decorators) ==
    [id |-> id, name |-> id, nameKind |-> nameKind, modifier |-> modifier,
     decorators |-> decorators]

Member(kind, name, static, decorators, body, initializer, parameters) ==
    [kind |-> kind, name |-> name, static |-> static, decorators |-> decorators,
     body |-> body, initializer |-> initializer, parameters |-> parameters,
     statements |-> <<>>, abstract |-> FALSE]

DecoratedParameter == <<Parameter(1, "Identifier", FALSE, TRUE)>>

\* The members classes are built from: decorated and undecorated, static and
\* not, a get/set pair, signatures without a body, a constructor.
ClassMemberShapes ==
    {Member("PropertyDeclaration", 1, FALSE, TRUE, FALSE, FALSE, <<>>),
     Member("PropertyDeclaration", 2, TRUE, TRUE, FALSE, TRUE, <<>>),
     Member("PropertyDeclaration", 2, FALSE, FALSE, FALSE, FALSE, <<>>),
     Member("PropertyDeclaration", 1, TRUE, FALSE, FALSE, TRUE, <<>>),
     Member("MethodDeclaration", 2, FALSE, FALSE, TRUE, FALSE, DecoratedParameter),
     Member("MethodDeclaration", 2, TRUE, TRUE, FALSE, FALSE, <<>>),
     Member("GetAccessor", 1, FALSE, TRUE, TRUE, FALSE, <<>>),
     Member("SetAccessor", 1, FALSE, TRUE, TRUE, FALSE, <<>>),
     Member("SetAccessor", 2, TRUE, FALSE, TRUE, FALSE, DecoratedParameter),
     Member("Constructor", NoName, FALSE, FALSE, TRUE, FALSE, DecoratedParameter)}

\* How a class is exported and named.
ClassExportShapes ==
    {[export |-> FALSE, default |-> FALSE, name |-> 1],
     [export |-> TRUE, default |-> FALSE, name |-> 1],
     [export |-> TRUE, default |-> TRUE, name |-> NoName]}

\* The classes of a source file: a first class without members, then a class
\* of any shape.
FirstClass == 1
SecondClass == 2
ClassNodes(id) ==
    IF id = FirstClass
    THEN {[id |-> id, name |-> 2, export |-> FALSE, default |-> FALSE,
           decorators |-> d, typeParameters |-> TRUE, derived |-> FALSE,
           classWithConstructorReference |-> r, members |-> <<>>] :
             d \in BOOLEAN, r \in BOOLEAN}
    ELSE IF id = SecondClass
    THEN {[id |-> id, name |-> e.name, export |-> e.export, default |-> e.default,
           decorators |-> d, typeParameters |-> FALSE, derived |-> FALSE,
           classWithConstructorReference |-> r, members |-> ms] :
             e \in ClassExportShapes, d \in BOOLEAN, r \in BOOLEAN,
             ms \in SeqsUpTo(ClassMemberShapes, MaxMembers)}
    ELSE {}

\* Identifiers the printer meets in expression position.
PrintedIdentifiers ==
    {[text |-> 1, constructorReferenceInClass |-> f, declaration |-> d,
      generated |-> FALSE, localName |-> FALSE, exportContainer |-> "none"] :
        f \in BOOLEAN, d \in {NoNode, FirstClass, SecondClass}}

ClassOptions == {[DefaultOptions EXCEPT !.target = t] : t \in {ES5, ES2015, ESNext}}

InitClass ==
    /\ compilerOptions \in ClassOptions
    /\ IdleScope
    /\ enabledSubstitutions = {}
    /\ registrations = <<>>
    /\ IdleClasses
    /\ applicableSubstitutions = {}
    /\ result = NoResult

\* What lowering and printing classes leaves alone.
outsideClass ==
    <<compilerOptions, currentSourceFile, currentNamespace,
      currentNamespaceContainerName, currentLexicalScope, currentNameScope,
      currentScopeFirstDeclarationsOfName, currentClassHasParameterProperties,
      stack, emitted, applicableSubstitutions>>

\* The visitor reaches a class declaration; the printer runs once the
\* transformation is over.
VisitClassDeclaration(node) ==
    /\ result.op # "substituteExpressionIdentifier"
    /\ node.id = nextId
    /\ \E r \in {visitClassDeclaration(node, ClassContext, ClassEnv)} :
           /\ classAliases' = r.c.classAliases
           /\ enabledSubstitutions' = r.c.enabledSubstitutions
           /\ registrations' = r.c.registrations
           /\ hoistedVariables' = r.c.hoisted
           /\ nextAutoGenerateId' = r.c.nextAutoGenerateId
           /\ result' = [op |-> "visitClassDeclaration", node |-> node,
                         facts |-> r.facts, accumulated |-> r.accumulated,
                         output |-> r.statements]
    /\ nextId' = nextId + 1
    /\ UNCHANGED outsideClass

\* The printer substitutes an identifier (onSubstituteNode, for an expression).
SubstituteExpressionIdentifier(node) ==
    /\ result' = [op |-> "substituteExpressionIdentifier", node |-> node,
                  facts |-> {}, accumulated |-> <<>>,
                  output |-> <<substituteExpressionIdentifier(
                                   node, enabledSubstitutions, classAliases,
                                   applicableSubstitutions)>>]
    /\ UNCHANGED <<classVars, enabledSubstitutions, registrations, nextId, outsideClass>>

NextClass ==
    \/ \E node \in ClassNodes(nextId) : VisitClassDeclaration(node)
    \/ \E node \in PrintedIdentifiers : SubstituteExpressionIdentifier(node)

SpecClass == InitClass /\ [][NextClass]_vars

----------------------------------------------------------------------------
\* The members of a class whose constructor has parameter properties.

MaxParameters == 2
MaxStatements == 3

\* A parameter: named by an identifier or by a binding pattern, with or
\* without an accessibility or readonly modifier.
ParameterShapes ==
    {[nameKind |-> "Identifier", modifier |-> TRUE],
     [nameKind |-> "Identifier", modifier |-> FALSE],
     [nameKind |-> "BindingPattern", modifier |-> TRUE]}

ParameterLists ==
    {[k \in 1..Len(ps) |-> Parameter(k, ps[k].nameKind, ps[k].modifier, FALSE)] :
        ps \in SeqsUpTo(ParameterShapes, MaxParameters)}

StatementKinds ==
    {"PrologueDirective", "SuperCall", "ExpressionStatement", "InterfaceDeclaration"}

StatementLists ==
    {[k \in 1..Len(ks) |-> [kind |-> ks[k], id |-> k]] :
        ks \in SeqsUpTo(StatementKinds, MaxStatements)}

ConstructorMember(parameters, body, statements) ==
    [kind |-> "Constructor", name |-> NoName, static |-> FALSE, decorators |-> FALSE,
     body |-> body, initializer |-> FALSE, parameters |-> parameters,
     statements |-> statements, abstract |-> FALSE]

\* What comes before and after the constructor in the class.
MembersBefore ==
    {<<>>,
     <<ConstructorMember(<<Parameter(1, "Identifier", TRUE, FALSE)>>, FALSE, <<>>)>>,
     <<Member("PropertyDeclaration", 2, FALSE, FALSE, FALSE, TRUE, <<>>)>>}
MembersAfter ==
    {<<>>, <<Member("MethodDeclaration", 2, FALSE, FALSE, TRUE, FALSE, <<>>)>>}

ClassesWithConstructor ==
    {[id |-> 1, name |-> 1, export |-> FALSE, default |-> FALSE, decorators |-> FALSE,
      typeParameters |-> FALSE, derived |-> TRUE,
      classWithConstructorReference |-> FALSE,
      members |-> before \o <<ConstructorMember(ps, TRUE, sts)>> \o after] :
        before \in MembersBefore, after \in MembersAfter,
        ps \in ParameterLists, sts \in StatementLists}

InitMembers ==
    /\ compilerOptions = DefaultOptions
    /\ IdleScope
    /\ enabledSubstitutions = {}
    /\ registrations = <<>>
    /\ IdleClasses
    /\ applicableSubstitutions = {}
    /\ result \in {Input(node) : node \in ClassesWithConstructor}

\* A class head is created: the members of the class are transformed.
TransformClassMembers ==
    /\ result.op = "input"
    /\ result' = [op |-> "transformClassMembers", node |-> result.node,
                  output |-> transformClassMembers(result.node)]
    /\ UNCHANGED <<scopeVars, classVars, applicableSubstitutions>>

NextMembers == TransformClassMembers

SpecMembers == InitMembers /\ [][NextMembers]_vars

----------------------------------------------------------------------------
\* The body of an enum.

MaxEnumMembers == 2

\* factory.getLocalName of the enum being transformed.
EnumLocalName == LocalName(1)

InitEnum ==
    /\ compilerOptions = DefaultOptions
    /\ IdleScope
    /\ enabledSubstitutions \in {{}, {NamespaceExports}, {NonQualifiedEnumMembers}}
    /\ registrations = IF enabledSubstitutions = {} THEN <<>>
                       ELSE RegistrationsFor(CHOOSE f \in enabledSubstitutions : TRUE)
    /\ IdleClasses
    /\ applicableSubstitutions = {}
    /\ result \in {Input(members) : members \in SeqsUpTo(EnumMembers, MaxEnumMembers)}

\* The body of an emitted enum is transformed; the container name is set to
\* the enum's local name for the members and restored afterwards.
TransformEnumBody ==
    /\ result.op = "input"
    /\ result' = [op |-> "transformEnumBody", node |-> result.node,
                  output |-> transformEnumBody(result.node, EnumLocalName),
                  lowered |-> LoweredInitializers(result.node),
                  enabledBefore |-> enabledSubstitutions]
    /\ enabledSubstitutions' =
           IF EnumBodyEnables(result.node)
           THEN enableSubstitution(enabledSubstitutions, NonQualifiedEnumMembers)
           ELSE enabledSubstitutions
    /\ registrations' = RegistrationsOfEnumBody(result.node, 1, enabledSubstitutions,
                                                registrations)
    /\ UNCHANGED <<compilerOptions, currentSourceFile, currentNamespace,
                   currentNamespaceContainerName, currentLexicalScope, currentNameScope,
                   currentScopeFirstDeclarationsOfName,
                   currentClassHasParameterProperties, stack, emitted, nextId,
                   classVars, applicableSubstitutions>>

NextEnum == TransformEnumBody

SpecEnum == InitEnum /\ [][NextEnum]_vars

----------------------------------------------------------------------------
\* Import and export elision.
\*
\* A node carries the answers of the resolver about it
\* (isReferencedAliasDeclaration, isValueAliasDeclaration,
\* isTopLevelValueImportEqualsWithEntityName) and whether it is its own parse
\* tree node (getParseTreeNode(node) === node).  A child that is absent and
\* a visit result that is undefined are both Undefined.

Undefined == [kind |-> "undefined"]

ImportSpecifier(typeOnly, referenced, value) ==
    [kind |-> "ImportSpecifier", name |-> NoName, isTypeOnly |-> typeOnly,
     isReferencedAliasDeclaration |-> referenced, isValueAliasDeclaration |-> value]

NamespaceImport(referenced, value) ==
    [kind |-> "NamespaceImport",
     isReferencedAliasDeclaration |-> referenced, isValueAliasDeclaration |-> value]

NamedImports(elements) == [kind |-> "NamedImports", elements |-> elements]

ImportClause(typeOnly, name, referenced, value, namedBindings) ==
    [kind |-> "ImportClause", isTypeOnly |-> typeOnly, name |-> name,
     isReferencedAliasDeclaration |-> referenced, isValueAliasDeclaration |-> value,
     namedBindings |-> namedBindings]

ImportDeclaration(importClause, parseTreeNode) ==
    [kind |-> "ImportDeclaration", importClause |-> importClause,
     isParseTreeNode |-> parseTreeNode]

ExportSpecifier(typeOnly, value) ==
    [kind |-> "ExportSpecifier", name |-> NoName, isTypeOnly |-> typeOnly,
     isValueAliasDeclaration |-> value]

NamespaceExport == [kind |-> "NamespaceExport"]

NamedExports(elements) == [kind |-> "NamedExports", elements |-> elements]

ExportDeclaration(typeOnly, exportClause, moduleSpecifier, parseTreeNode) ==
    [kind |-> "ExportDeclaration", isTypeOnly |-> typeOnly,
     exportClause |-> exportClause, moduleSpecifier |-> moduleSpecifier,
     isParseTreeNode |-> parseTreeNode]

ExportAssignment(value, parseTreeNode) ==
    [kind |-> "ExportAssignment", isValueAliasDeclaration |-> value,
     isParseTreeNode |-> parseTreeNode]

ImportEqualsDeclaration(typeOnly, moduleReference, referenced, value, topLevelValue,
                        export, parseTreeNode) ==
    [kind |-> "ImportEqualsDeclaration", name |-> 1, isTypeOnly |-> typeOnly,
     moduleReference |-> moduleReference,
     isReferencedAliasDeclaration |-> referenced, isValueAliasDeclaration |-> value,
     isTopLevelValueImportEqualsWithEntityName |-> topLevelValue,
     export |-> export, default |-> FALSE, isParseTreeNode |-> parseTreeNode]

\* The source file being transformed: a script or an external module.
ScriptFile == 1
ModuleFile == 2
isExternalModule(file) == file = ModuleFile

PreserveOrError(options) == options.importsNotUsedAsValues \in {"Preserve", "Error"}

shouldEmitAliasDeclaration_ReferencedOnly(options, node) ==
    node.isReferencedAliasDeclaration

shouldEmitAliasDeclaration(options, node) ==
    IF options.preserveValueImports
    THEN node.isValueAliasDeclaration
    ELSE node.isReferencedAliasDeclaration

visitImportSpecifier_KeepsTypeOnly(options, node) ==
    IF shouldEmitAliasDeclaration(options, node) THEN node ELSE Undefined

visitImportSpecifier(options, node) ==
    IF ~node.isTypeOnly /\ shouldEmitAliasDeclaration(options, node)
    THEN node
    ELSE Undefined

\* visitNodes: every element is visited, the undefined results are dropped.
VisitImportSpecifiers(options, elements) ==
    SelectSeq([i \in 1..Len(elements) |-> visitImportSpecifier(options, elements[i])],
              LAMBDA e : e # Undefined)

visitNamedImportBindings(options, node) ==
    IF node.kind = "NamespaceImport"
    THEN IF shouldEmitAliasDeclaration(options, node) THEN node ELSE Undefined
    ELSE LET allowEmpty == options.preserveValueImports /\ PreserveOrError(options)
             elements == VisitImportSpecifiers(options, node.elements)
         IN  IF allowEmpty \/ elements # <<>>
             THEN NamedImports(elements)
             ELSE Undefined

visitImportClause(options, node) ==
    LET name == IF shouldEmitAliasDeclaration(options, node) THEN node.name ELSE NoName
        namedBindings == IF node.namedBindings = Undefined
                         THEN Undefined
                         ELSE visitNamedImportBindings(options, node.namedBindings)
    IN  IF name # NoName \/ namedBindings # Undefined
        THEN [node EXCEPT !.isTypeOnly = FALSE, !.name = name,
                          !.namedBindings = namedBindings]
        ELSE Undefined

visitImportDeclaration_PreserveOnly(options, node) ==
    IF node.importClause = Undefined
    THEN node
    ELSE IF node.importClause.isTypeOnly
    THEN Undefined
    ELSE LET importClause == visitImportClause(options, node.importClause)
         IN  IF importClause # Undefined \/ options.importsNotUsedAsValues = "Preserve"
             THEN [node EXCEPT !.importClause = importClause]
             ELSE Undefined

visitImportDeclaration(options, node) ==
    IF node.importClause = Undefined
    THEN node
    ELSE IF node.importClause.isTypeOnly
    THEN Undefined
    ELSE LET importClause == visitImportClause(options, node.importClause)
         IN  IF importClause # Undefined \/ PreserveOrError(options)
             THEN [node EXCEPT !.importClause = importClause]
             ELSE Undefined

visitExportAssignment_Always(node) == node

visitExportAssignment(node) ==
    IF node.isValueAliasDeclaration THEN node ELSE Undefined

visitExportSpecifier(node) ==
    IF ~node.isTypeOnly /\ node.isValueAliasDeclaration THEN node ELSE Undefined

visitNamedExports(node, allowEmpty) ==
    LET elements ==
            SelectSeq([i \in 1..Len(node.elements) |-> visitExportSpecifier(node.elements[i])],
                      LAMBDA e : e # Undefined)
    IN  IF allowEmpty \/ elements # <<>> THEN NamedExports(elements) ELSE Undefined

visitNamespaceExports(node) == node

visitNamedExportBindings(node, allowEmpty) ==
    IF node.kind = "NamespaceExport"
    THEN visitNamespaceExports(node)
    ELSE visitNamedExports(node, allowEmpty)

visitExportDeclaration(options, node) ==
    IF node.isTypeOnly
    THEN Undefined
    ELSE IF node.exportClause = Undefined \/ node.exportClause.kind = "NamespaceExport"
    THEN node
    ELSE LET allowEmpty == node.moduleSpecifier /\ PreserveOrError(options)
             exportClause == visitNamedExportBindings(node.exportClause, allowEmpty)
         IN  IF exportClause # Undefined
             THEN [node EXCEPT !.exportClause = exportClause]
             ELSE Undefined

createNamespaceExport(container, exportName, exportValue) ==
    [kind |-> "ExpressionStatement",
     expression |-> Assignment([kind |-> "NamespaceMemberName", ns |-> container,
                                name |-> exportName],
                               exportValue)]

shouldEmitImportEqualsDeclaration(options, file, node) ==
    \/ shouldEmitAliasDeclaration(options, node)
    \/ /\ ~isExternalModule(file)
       /\ node.isTopLevelValueImportEqualsWithEntityName

visitImportEqualsDeclaration(options, file, env, node) ==
    IF node.isTypeOnly
    THEN Undefined
    ELSE IF node.moduleReference = "ExternalModuleReference"
    THEN LET isReferenced == shouldEmitAliasDeclaration(options, node)
         IN  IF ~isReferenced /\ options.importsNotUsedAsValues = "Preserve"
             THEN [kind |-> "ImportDeclaration", importClause |-> Undefined,
                   isParseTreeNode |-> FALSE]
             ELSE IF isReferenced THEN node ELSE Undefined
    ELSE IF ~shouldEmitImportEqualsDeclaration(options, file, node)
    THEN Undefined
    ELSE IF isNamedExternalModuleExport(env, node) \/ ~isExportOfNamespace(env, node)
    THEN [kind |-> "VariableStatement", export |-> node.export,
          name |-> node.name, initializer |-> Expr("EntityName")]
    ELSE createNamespaceExport(env.currentNamespaceContainerName, node.name,
                               Expr("EntityName"))

\* A statement that a transformer running before this one has replaced is not
\* elided: it is returned as it is, or with its children visited, which
\* removes none of them.
ElisionPerformed(env, node) ==
    env.currentNamespace # NoNode \/ node.isParseTreeNode

----------------------------------------------------------------------------
\* The statements and the settings import and export elision is run on.

MaxSpecifiers == 2

\* The elements of a list are named by their position.
NamedByPosition(elements) ==
    [i \in 1..Len(elements) |-> [elements[i] EXCEPT !.name = i]]

ImportSpecifierLists ==
    {NamedByPosition(l) :
        l \in SeqsUpTo({ImportSpecifier(t, r, v) : t, r, v \in BOOLEAN}, MaxSpecifiers)}

ExportSpecifierLists ==
    {NamedByPosition(l) :
        l \in SeqsUpTo({ExportSpecifier(t, v) : t, v \in BOOLEAN}, MaxSpecifiers)}

NamedImportBindings ==
    {Undefined} \cup {NamespaceImport(r, v) : r, v \in BOOLEAN}
                \cup {NamedImports(l) : l \in ImportSpecifierLists}

ImportClauses ==
    {ImportClause(t, NoName, FALSE, FALSE, b) :
        t \in BOOLEAN, b \in NamedImportBindings \ {Undefined}}
    \cup {ImportClause(t, 1, r, v, b) :
        t, r, v \in BOOLEAN, b \in NamedImportBindings}

ImportDeclarations ==
    {ImportDeclaration(c, p) : c \in {Undefined} \cup ImportClauses, p \in BOOLEAN}

ExportDeclarations ==
    {ExportDeclaration(t, NamedExports(l), m, p) :
        t, m, p \in BOOLEAN, l \in ExportSpecifierLists}
    \cup {ExportDeclaration(t, c, TRUE, p) :
        t, p \in BOOLEAN, c \in {Undefined, NamespaceExport}}

ExportAssignments == {ExportAssignment(v, p) : v, p \in BOOLEAN}

ImportEqualsDeclarations ==
    {ImportEqualsDeclaration(t, m, r, v, tl, e, p) :
        t, r, v, tl, e, p \in BOOLEAN,
        m \in {"ExternalModuleReference", "EntityName"}}

ElidableStatements ==
    ImportDeclarations \cup ExportDeclarations \cup ExportAssignments
        \cup ImportEqualsDeclarations

ImportOptions ==
    {[DefaultOptions EXCEPT !.importsNotUsedAsValues = p, !.preserveValueImports = v] :
        p \in {"Remove", "Preserve", "Error"}, v \in BOOLEAN}

\* Only an import-equals declaration of an entity name can stand in a script
\* file or in a namespace; within a namespace it is not at the top level, and
\* an exported one outside a namespace makes the file a module.
CanStandIn(node, file, namespace) ==
    \/ file = ModuleFile /\ namespace = NoNode
    \/ /\ node.kind = "ImportEqualsDeclaration"
       /\ node.moduleReference = "EntityName"
       /\ namespace # NoNode =>
              ~node.isTopLevelValueImportEqualsWithEntityName /\ node.isParseTreeNode
       /\ (namespace = NoNode /\ file = ScriptFile) => ~node.export

InitImport ==
    /\ compilerOptions \in ImportOptions
    /\ currentSourceFile \in {ScriptFile, ModuleFile}
    /\ currentNamespace \in {NoNode, 1}
    /\ currentNamespaceContainerName = currentNamespace
    /\ currentLexicalScope = currentSourceFile
    /\ currentNameScope = NoNode
    /\ currentScopeFirstDeclarationsOfName = UndefinedMap
    /\ currentClassHasParameterProperties = FALSE
    /\ stack = <<>>
    /\ emitted = <<>>
    /\ nextId = 1
    /\ enabledSubstitutions = {}
    /\ registrations = <<>>
    /\ IdleClasses
    /\ applicableSubstitutions = {}
    /\ result \in {Input(node) : node \in ElidableStatements}
    /\ CanStandIn(result.node, currentSourceFile, currentNamespace)

outsideImport == <<scopeVars, classVars, applicableSubstitutions>>

\* visitElidableStatement on a statement that is not its own parse tree node.
NoElision ==
    /\ result.op = "input"
    /\ ~ElisionPerformed(Cur, result.node)
    /\ result' = [op |-> "noElision", node |-> result.node, output |-> result.node]
    /\ UNCHANGED outsideImport

VisitImportDeclaration ==
    /\ result.op = "input"
    /\ ElisionPerformed(Cur, result.node)
    /\ result.node.kind = "ImportDeclaration"
    /\ result' = [op |-> "visitImportDeclaration", node |-> result.node,
                  output |-> visitImportDeclaration(compilerOptions, result.node)]
    /\ UNCHANGED outsideImport

\* From visitElidableStatement at the top level, from visitTypeScript within
\* a namespace.
VisitImportEqualsDeclaration ==
    /\ result.op = "input"
    /\ ElisionPerformed(Cur, result.node)
    /\ result.node.kind = "ImportEqualsDeclaration"
    /\ result' = [op |-> "visitImportEqualsDeclaration", node |-> result.node,
                  output |-> visitImportEqualsDeclaration(compilerOptions,
                                 currentSourceFile, Cur, result.node)]
    /\ UNCHANGED outsideImport

VisitExportAssignment ==
    /\ result.op = "input"
    /\ ElisionPerformed(Cur, result.node)
    /\ result.node.kind = "ExportAssignment"
    /\ result' = [op |-> "visitExportAssignment", node |-> result.node,
                  output |-> visitExportAssignment(result.node)]
    /\ UNCHANGED outsideImport

VisitExportDeclaration ==
    /\ result.op = "input"
    /\ ElisionPerformed(Cur, result.node)
    /\ result.node.kind = "ExportDeclaration"
    /\ result' = [op |-> "visitExportDeclaration", node |-> result.node,
                  output |-> visitExportDeclaration(compilerOptions, result.node)]
    /\ UNCHANGED outsideImport

NextImport ==
    \/ NoElision
    \/ VisitImportDeclaration
    \/ VisitImportEqualsDeclaration
    \/ VisitExportAssignment
    \/ VisitExportDeclaration

SpecImport == InitImport /\ [][NextImport]_vars

----------------------------------------------------------------------------
\* The general visitor.
\*
\* A node carries its transform flags, aggregated over its subtree, and
\* whether it was created by the factory during this transformation (fresh);
\* a node of the input is not.  A visit gives the VisitResult as a sequence
\* (empty for undefined) and the nodes below the visited one that a visitor
\* was invoked on.

MaxChildren == 2

ContainsTypeScript == "ContainsTypeScript"

\* Kinds that visitTypeScript elides, kinds it replaces by a not-emitted
\* statement, and kinds that take its default branch.
ElidedKinds == {"ArrayType"}
NotEmittedKinds == {"InterfaceDeclaration", "TypeAliasDeclaration"}
DefaultKinds == {"Block", "IfStatement", "VariableStatement"}

\* The kinds above that are statements.
VisitedStatementKinds == NotEmittedKinds \cup DefaultKinds

SyntaxNode(id, kind, children) ==
    [id |-> id, kind |-> kind, name |-> NoName, ambient |-> FALSE, fresh |-> FALSE,
     transformFlags |->
         IF \/ kind \in ElidedKinds \cup NotEmittedKinds
            \/ \E i \in 1..Len(children) : ContainsTypeScript \in children[i].transformFlags
         THEN {ContainsTypeScript}
         ELSE {},
     children |-> children]

createNotEmittedStatement(node) ==
    [id |-> node.id, kind |-> "NotEmittedStatement", name |-> NoName, ambient |-> FALSE,
     fresh |-> TRUE, transformFlags |-> {}, children |-> <<>>]

\* The node with the declare modifier, which is TypeScript syntax.
Ambient(node) == [node EXCEPT !.ambient = TRUE, !.transformFlags = {ContainsTypeScript}]

AmbientStatement_Never(node) == FALSE

\* isStatement(node) && hasSyntacticModifier(node, ModifierFlags.Ambient)
AmbientStatement(node) == node.kind \in VisitedStatementKinds /\ node.ambient

Visited(output, visited) == [output |-> output, visited |-> visited]

RECURSIVE visitorWorker(_)
RECURSIVE visitTypeScript(_)
RECURSIVE visitEachChild(_)

visitorWorker_AlwaysVisitTypeScript(node) == visitTypeScript(node)

visitorWorker(node) ==
    IF ContainsTypeScript \in node.transformFlags
    THEN visitTypeScript(node)
    ELSE Visited(<<node>>, <<>>)

\* The state saved and restored around visitorWorker is in the action.
visitor(node) == visitorWorker(node)

\* visitEachChild(node, visitor, context): the node itself when every child
\* comes back as it was, else an updated copy.
visitEachChild(node) ==
    LET results == [i \in 1..Len(node.children) |-> visitor(node.children[i])]
        children == Flatten([i \in 1..Len(results) |-> results[i].output])
        below == Flatten([i \in 1..Len(results) |->
                             <<node.children[i]>> \o results[i].visited])
    IN  IF children = node.children
        THEN Visited(<<node>>, below)
        ELSE Visited(<<[node EXCEPT !.children = children, !.fresh = TRUE]>>, below)

visitTypeScript(node) ==
    IF AmbientStatement(node)
    THEN Visited(<<createNotEmittedStatement(node)>>, <<>>)
    ELSE IF node.kind \in ElidedKinds
    THEN Visited(<<>>, <<>>)
    ELSE IF node.kind \in NotEmittedKinds
    THEN Visited(<<createNotEmittedStatement(node)>>, <<>>)
    ELSE visitEachChild(node)

\* saveStateAndInvoke(node, visitorWorker): the state it leaves behind.
StateAfterVisit(s, node) == RestoreState(onBeforeVisitNode(s, node), SavedState(s, node))

LeafNodes ==
    {SyntaxNode(5, k, <<>>) : k \in {"Identifier"} \cup ElidedKinds \cup NotEmittedKinds}

InnerNodes ==
    {SyntaxNode(4, k, c) : k \in DefaultKinds, c \in SeqsUpTo(LeafNodes, MaxChildren)}

\* A block whose last statement has children of its own.
OuterNodes ==
    {SyntaxNode(3, "Block", c \o <<n>>) :
        c \in SeqsUpTo(LeafNodes, MaxChildren - 1), n \in InnerNodes}

\* What is below a declaration: names and type nodes.
DeclarationParts == {SyntaxNode(6, k, <<>>) : k \in {"Identifier"} \cup ElidedKinds}

\* Interface and type alias declarations, with and without the declare
\* modifier, and ambient variable statements.
TypeOnlyDeclarations ==
    LET plain == {SyntaxNode(5, k, c) :
                     k \in NotEmittedKinds \cup {"VariableStatement"},
                     c \in SeqsUpTo(DeclarationParts, MaxChildren) \ {<<>>}}
    IN  {n \in plain : n.kind \in NotEmittedKinds} \cup {Ambient(n) : n \in plain}

\* A block of such a declaration and another statement.
DeclaringBlocks ==
    {SyntaxNode(4, "Block", <<d, n>>) :
        d \in TypeOnlyDeclarations, n \in {SyntaxNode(5, "Identifier", <<>>)}}

VisitedNodes ==
    LeafNodes \cup InnerNodes \cup OuterNodes \cup TypeOnlyDeclarations \cup DeclaringBlocks

InitVisitor ==
    /\ compilerOptions = DefaultOptions
    /\ currentSourceFile = ModuleFile
    /\ currentNamespace = NoNode
    /\ currentNamespaceContainerName = NoNode
    /\ currentLexicalScope = ModuleFile
    /\ currentNameScope = NoNode
    /\ currentScopeFirstDeclarationsOfName = UndefinedMap
    /\ currentClassHasParameterProperties = FALSE
    /\ stack = <<>>
    /\ emitted = <<>>
    /\ nextId = 1
    /\ enabledSubstitutions = {}
    /\ registrations = <<>>
    /\ IdleClasses
    /\ applicableSubstitutions = {}
    /\ result \in {Input(node) : node \in VisitedNodes}

\* visitor(node): saveStateAndInvoke(node, visitorWorker).
Visitor ==
    /\ result.op = "input"
    /\ \E r \in {visitor(result.node)} :
           result' = [op |-> "visitor", node |-> result.node,
                      output |-> r.output, visited |-> r.visited]
    /\ Assign(StateAfterVisit(Cur, result.node))
    /\ UNCHANGED <<compilerOptions, currentSourceFile, enabledSubstitutions, registrations, stack,
                   emitted, nextId, classVars, applicableSubstitutions>>

NextVisitor == Visitor

SpecVisitor == InitVisitor /\ [][NextVisitor]_vars

----------------------------------------------------------------------------
\* Function-like declarations with and without a body.

FunctionDeclaration(name, body, export) ==
    [id |-> 1, kind |-> "FunctionDeclaration", name |-> name, body |-> body,
     abstract |-> FALSE, export |-> export, default |-> FALSE, ambient |-> FALSE]

\* The assignment addExportMemberAssignment adds for an export of a namespace.
ExportMemberAssignment(env, node) ==
    ExpressionStatement(
        Assignment(ExternalModuleOrNamespaceExportName(env.currentNamespaceContainerName,
                                                       node.name),
                   LocalName(node.name)))

visitFunctionDeclaration(env, node) ==
    IF ~shouldEmitFunctionLikeDeclaration(node)
    THEN <<createNotEmittedStatement(node)>>
    ELSE LET updated == [kind |-> "FunctionDeclaration", original |-> node.id,
                         block |-> FunctionBodyOrCreatedBlock(node)]
         IN  IF isExportOfNamespace(env, node)
             THEN <<updated, ExportMemberAssignment(env, node)>>
             ELSE <<updated>>

\* A class whose only member is the one given.
ClassOfMember(m) ==
    [id |-> 1, kind |-> "ClassDeclaration", name |-> 1, export |-> FALSE,
     default |-> FALSE, decorators |-> FALSE, typeParameters |-> FALSE,
     derived |-> FALSE, classWithConstructorReference |-> FALSE, members |-> <<m>>]

FunctionLikeMembers ==
    {[Member(k, n, s, FALSE, b, FALSE, <<>>) EXCEPT !.abstract = a] :
        k \in {"MethodDeclaration", "GetAccessor", "SetAccessor"},
        n \in Names, s, b, a \in BOOLEAN}
    \cup {ConstructorMember(ps, b, <<>>) : ps \in ParameterLists, b \in BOOLEAN}

FunctionDeclarations ==
    {FunctionDeclaration(n, b, e) : n \in Names, b, e \in BOOLEAN}

InitFunctionLike ==
    /\ compilerOptions = DefaultOptions
    /\ currentSourceFile = ModuleFile
    /\ currentNamespace \in {NoNode, 1}
    /\ currentNamespaceContainerName = currentNamespace
    /\ currentLexicalScope = currentSourceFile
    /\ currentNameScope = NoNode
    /\ currentScopeFirstDeclarationsOfName = UndefinedMap
    /\ currentClassHasParameterProperties = FALSE
    /\ stack = <<>>
    /\ emitted = <<>>
    /\ nextId = 1
    /\ enabledSubstitutions = {}
    /\ registrations = <<>>
    /\ IdleClasses
    /\ applicableSubstitutions = {}
    /\ result \in {Input(node) :
                     node \in {ClassOfMember(m) : m \in FunctionLikeMembers}
                                 \cup FunctionDeclarations}

\* classElementVisitor on the member of a class.
VisitClassElement ==
    /\ result.op = "input"
    /\ result.node.kind = "ClassDeclaration"
    /\ result' = [op |-> "classElementVisitor", node |-> result.node.members[1],
                  output |-> classElementVisitor(result.node, 1)]
    /\ UNCHANGED <<scopeVars, classVars, applicableSubstitutions>>

VisitFunctionDeclaration ==
    /\ result.op = "input"
    /\ result.node.kind = "FunctionDeclaration"
    /\ result' = [op |-> "visitFunctionDeclaration", node |-> result.node,
                  output |-> visitFunctionDeclaration(Cur, result.node)]
    /\ UNCHANGED <<scopeVars, classVars, applicableSubstitutions>>

NextFunctionLike == VisitClassElement \/ VisitFunctionDeclaration

SpecFunctionLike == InitFunctionLike /\ [][NextFunctionLike]_vars

----------------------------------------------------------------------------
\* Serialization of type annotations for decorator metadata.
\*
\* A type node is a record with its kind and, by kind, its literal, its
\* operator, the type it wraps, its constituent types, or its type name and
\* the oracle's answer for it (getTypeReferenceSerializationKind).  c is the
\* part of the state that creating a temporary variable writes.  A failed
\* debug assertion (Debug.failBadSyntaxKind) is the value DebugFailure: the
\* exception leaves every enclosing call.

Identifier(text) == [kind |-> "Identifier", text |-> text]
VoidZero == Expr("VoidZero")
DebugFailure == [kind |-> "DebugFailure"]
TempVariable(id) == [kind |-> "TempVariable", text |-> NoName, autoGenerateId |-> id]
Serialized(c, value) == [c |-> c, value |-> value]

isIdentifier(e) == e.kind = "Identifier"

\* typeof value === "function" ? whenTrue : Object
TypeCheckedOrObject(value, whenTrue) ==
    [kind |-> "ConditionalExpression",
     condition |-> [kind |-> "TypeCheck", value |-> value, tag |-> "function"],
     whenTrue |-> whenTrue, whenFalse |-> Identifier("Object")]

getGlobalSymbolNameWithFallback ==
    TypeCheckedOrObject(Identifier("Symbol"), Identifier("Symbol"))

getGlobalBigIntNameWithFallback(languageVersion) ==
    IF languageVersion < ESNext
    THEN TypeCheckedOrObject(Identifier("BigInt"), Identifier("BigInt"))
    ELSE Identifier("BigInt")

\* typeof left !== "undefined" && right
createCheckedValue(left, right) ==
    [kind |-> "LogicalAnd",
     left |-> [kind |-> "StrictInequality",
               left |-> [kind |-> "TypeOf", expression |-> left],
               right |-> "undefined"],
     right |-> right]

RECURSIVE serializeEntityNameAsExpression(_)
serializeEntityNameAsExpression(node) ==
    IF node.kind = "Identifier"
    THEN Identifier(node.text)
    ELSE [kind |-> "PropertyAccessExpression",
          expression |-> serializeEntityNameAsExpression(node.left),
          name |-> node.right]

RECURSIVE serializeEntityNameAsExpressionFallback(_, _)
serializeEntityNameAsExpressionFallback(c, node) ==
    IF node.kind = "Identifier"
    THEN Serialized(c, createCheckedValue(serializeEntityNameAsExpression(node),
                                          serializeEntityNameAsExpression(node)))
    ELSE IF node.left.kind = "Identifier"
    THEN Serialized(c, createCheckedValue(serializeEntityNameAsExpression(node.left),
                                          serializeEntityNameAsExpression(node)))
    ELSE LET l == serializeEntityNameAsExpressionFallback(c, node.left)
             temp == TempVariable(l.c.nextAutoGenerateId)
         IN  Serialized(
                 [l.c EXCEPT !.nextAutoGenerateId = @ + 1, !.hoisted = Append(@, temp)],
                 [kind |-> "LogicalAnd",
                  left |-> [kind |-> "LogicalAnd",
                            left |-> l.value.left,
                            right |-> [kind |-> "StrictInequality",
                                       left |-> Assignment(temp, l.value.right),
                                       right |-> VoidZero]],
                  right |-> [kind |-> "PropertyAccessExpression",
                             expression |-> temp, name |-> node.right]])

\* The reference cannot be resolved: a guarded reference through a
\* temporary variable, or Object within a branch of a conditional type.
SerializeUnknownReference(c, inConditionalBranch, node) ==
    IF inConditionalBranch
    THEN Serialized(c, Identifier("Object"))
    ELSE LET s == serializeEntityNameAsExpressionFallback(c, node.typeName)
             temp == TempVariable(s.c.nextAutoGenerateId)
         IN  Serialized(
                 [s.c EXCEPT !.nextAutoGenerateId = @ + 1, !.hoisted = Append(@, temp)],
                 TypeCheckedOrObject(Assignment(temp, s.value), temp))

serializeTypeReferenceNode(options, c, inConditionalBranch, node) ==
    LET kind == node.serializationKind
    IN  CASE kind = "Unknown" -> SerializeUnknownReference(c, inConditionalBranch, node)
          [] kind = "TypeWithConstructSignatureAndValue" ->
                 Serialized(c, serializeEntityNameAsExpression(node.typeName))
          [] kind = "VoidNullableOrNeverType" -> Serialized(c, VoidZero)
          [] kind = "BigIntLikeType" ->
                 Serialized(c, getGlobalBigIntNameWithFallback(options.target))
          [] kind = "BooleanType" -> Serialized(c, Identifier("Boolean"))
          [] kind = "NumberLikeType" -> Serialized(c, Identifier("Number"))
          [] kind = "StringLikeType" -> Serialized(c, Identifier("String"))
          [] kind = "ArrayLikeType" -> Serialized(c, Identifier("Array"))
          [] kind = "ESSymbolType" ->
                 Serialized(c, IF options.target < ES2015
                               THEN getGlobalSymbolNameWithFallback
                               ELSE Identifier("Symbol"))
          [] kind = "TypeWithCallSignature" -> Serialized(c, Identifier("Function"))
          [] kind = "Promise" -> Serialized(c, Identifier("Promise"))
          [] kind = "ObjectType" -> Serialized(c, Identifier("Object"))

\* The literal of a literal type.
SerializeLiteralType(options, literal) ==
    CASE literal \in {"StringLiteral", "NoSubstitutionTemplateLiteral"} -> Identifier("String")
      [] literal \in {"PrefixUnaryExpression", "NumericLiteral"} -> Identifier("Number")
      [] literal = "BigIntLiteral" -> getGlobalBigIntNameWithFallback(options.target)
      [] literal \in {"TrueKeyword", "FalseKeyword"} -> Identifier("Boolean")
      [] literal = "NullKeyword" -> VoidZero
      [] OTHER -> DebugFailure

\* Kinds whose case of the switch breaks: the Object after the switch.
ObjectByDefaultKinds ==
    {"TypeQuery", "IndexedAccessType", "MappedType", "TypeLiteral", "AnyKeyword",
     "UnknownKeyword", "ThisType", "ImportType", "JSDocAllType", "JSDocUnknownType",
     "JSDocFunctionType", "JSDocVariadicType", "JSDocNamepathType"}

\* Kinds whose case serializes the type they wrap.
WrapperKinds ==
    {"ParenthesizedType", "JSDocNullableType", "JSDocNonNullableType", "JSDocOptionalType"}

RECURSIVE SkipParentheses(_)
SkipParentheses(typeNode) ==
    IF typeNode.kind = "ParenthesizedType" THEN SkipParentheses(typeNode.type) ELSE typeNode

RECURSIVE serializeTypeNode(_, _, _, _)
RECURSIVE SerializeTypesFrom(_, _, _, _, _, _)

\* serializeTypeList after constituent i was serialized to r.
AfterConstituent(options, inConditionalBranch, types, i, serializedUnion, r) ==
    IF r.value = DebugFailure
    THEN r
    ELSE IF isIdentifier(r.value) /\ r.value.text = "Object"
    THEN r
    ELSE IF serializedUnion # Undefined
    THEN IF \/ ~isIdentifier(serializedUnion)
            \/ ~isIdentifier(r.value)
            \/ serializedUnion.text # r.value.text
         THEN Serialized(r.c, Identifier("Object"))
         ELSE SerializeTypesFrom(options, r.c, inConditionalBranch, types, i + 1,
                                 serializedUnion)
    ELSE SerializeTypesFrom(options, r.c, inConditionalBranch, types, i + 1, r.value)

SkipsConstituent_NeverOnly(options, typeNode) == typeNode.kind = "NeverKeyword"

\* Whether the loop of serializeTypeList passes over the constituent.
SkipsConstituent(options, typeNode) ==
    \/ typeNode.kind = "NeverKeyword"
    \/ /\ ~options.strictNullChecks
       /\ \/ typeNode.kind = "LiteralType" /\ typeNode.literal = "NullKeyword"
          \/ typeNode.kind = "UndefinedKeyword"

\* The loop of serializeTypeList from constituent i on.
SerializeTypesFrom(options, c, inConditionalBranch, types, i, serializedUnion) ==
    IF i > Len(types)
    THEN Serialized(c, IF serializedUnion # Undefined THEN serializedUnion ELSE VoidZero)
    ELSE IF SkipsConstituent(options, SkipParentheses(types[i]))
    THEN SerializeTypesFrom(options, c, inConditionalBranch, types, i + 1, serializedUnion)
    ELSE AfterConstituent(options, inConditionalBranch, types, i, serializedUnion,
                          serializeTypeNode(options, c, inConditionalBranch,
                                            SkipParentheses(types[i])))

serializeTypeList(options, c, inConditionalBranch, types) ==
    SerializeTypesFrom(options, c, inConditionalBranch, types, 1, Undefined)

SerializedAbsentType_VoidZero == VoidZero

\* What serializeTypeNode returns when there is no type node.
SerializedAbsentType == Identifier("Object")

serializeTypeNode(options, c, inConditionalBranch, node) ==
    IF node = Undefined
    THEN Serialized(c, SerializedAbsentType)
    ELSE CASE node.kind \in {"VoidKeyword", "UndefinedKeyword", "NeverKeyword"} ->
                 Serialized(c, VoidZero)
           [] node.kind \in WrapperKinds ->
                 serializeTypeNode(options, c, inConditionalBranch, node.type)
           [] node.kind \in {"FunctionType", "ConstructorType"} ->
                 Serialized(c, Identifier("Function"))
           [] node.kind \in {"ArrayType", "TupleType"} -> Serialized(c, Identifier("Array"))
           [] node.kind \in {"TypePredicate", "BooleanKeyword"} ->
                 Serialized(c, Identifier("Boolean"))
           [] node.kind = "StringKeyword" -> Serialized(c, Identifier("String"))
           [] node.kind = "ObjectKeyword" -> Serialized(c, Identifier("Object"))
           [] node.kind = "LiteralType" ->
                 Serialized(c, SerializeLiteralType(options, node.literal))
           [] node.kind = "NumberKeyword" -> Serialized(c, Identifier("Number"))
           [] node.kind = "BigIntKeyword" ->
                 Serialized(c, getGlobalBigIntNameWithFallback(options.target))
           [] node.kind = "SymbolKeyword" ->
                 Serialized(c, IF options.target < ES2015
                               THEN getGlobalSymbolNameWithFallback
                               ELSE Identifier("Symbol"))
           [] node.kind = "TypeReference" ->
                 serializeTypeReferenceNode(options, c, inConditionalBranch, node)
           [] node.kind \in {"IntersectionType", "UnionType"} ->
                 serializeTypeList(options, c, inConditionalBranch, node.types)
           [] node.kind = "ConditionalType" ->
                 serializeTypeList(options, c, TRUE, <<node.trueType, node.falseType>>)
           [] node.kind = "TypeOperator" ->
                 IF node.operator = "ReadonlyKeyword"
                 THEN serializeTypeNode(options, c, inConditionalBranch, node.type)
                 ELSE Serialized(c, Identifier("Object"))
           [] node.kind \in ObjectByDefaultKinds -> Serialized(c, Identifier("Object"))
           [] OTHER -> Serialized(c, DebugFailure)

----------------------------------------------------------------------------
\* The type annotations the serializer is run on.

MaxConstituents == 2

TypeNode(kind) == [kind |-> kind]
LiteralType(literal) == [kind |-> "LiteralType", literal |-> literal]
WrapperType(kind, type) == [kind |-> kind, type |-> type]
TypeOperator(operator, type) ==
    [kind |-> "TypeOperator", operator |-> operator, type |-> type]
TypeList(kind, types) == [kind |-> kind, types |-> types]
ConditionalType(trueType, falseType) ==
    [kind |-> "ConditionalType", trueType |-> trueType, falseType |-> falseType]
TypeReference(typeName, serializationKind) ==
    [kind |-> "TypeReference", typeName |-> typeName,
     serializationKind |-> serializationKind]

QualifiedName(left, right) == [kind |-> "QualifiedName", left |-> left, right |-> right]

\* A, B, A.B and A.B.A
TypeNames ==
    {Identifier("A"), Identifier("B"), QualifiedName(Identifier("A"), "B"),
     QualifiedName(QualifiedName(Identifier("A"), "B"), "A")}

\* The type-node kinds without a type of their own below them; a template
\* literal type is a type node as any other.
KeywordAndSimpleTypes ==
    {TypeNode(k) : k \in {"VoidKeyword", "UndefinedKeyword", "NeverKeyword", "FunctionType",
                          "ConstructorType", "ArrayType", "TupleType", "TypePredicate",
                          "BooleanKeyword", "StringKeyword", "ObjectKeyword",
                          "NumberKeyword", "BigIntKeyword", "SymbolKeyword",
                          "TemplateLiteralType"} \cup ObjectByDefaultKinds}

LiteralTypes ==
    {LiteralType(l) : l \in {"StringLiteral", "NoSubstitutionTemplateLiteral",
                             "PrefixUnaryExpression", "NumericLiteral", "BigIntLiteral",
                             "TrueKeyword", "FalseKeyword", "NullKeyword"}}

TypeReferences ==
    {TypeReference(n, k) : n \in TypeNames,
                           k \in {"Unknown", "TypeWithConstructSignatureAndValue"}}
    \cup {TypeReference(Identifier("A"), k) :
            k \in {"VoidNullableOrNeverType", "BigIntLikeType", "BooleanType",
                   "NumberLikeType", "StringLikeType", "ArrayLikeType", "ESSymbolType",
                   "TypeWithCallSignature", "Promise", "ObjectType"}}

LeafTypes == KeywordAndSimpleTypes \cup LiteralTypes \cup TypeReferences

WrappedTypes ==
    {WrapperType(k, t) : k \in WrapperKinds, t \in LeafTypes}
    \cup {TypeOperator(o, t) : o \in {"ReadonlyKeyword", "KeyOfKeyword"}, t \in LeafTypes}

\* The constituents of unions, intersections and conditional types.
Constituents ==
    {TypeNode("NeverKeyword"), TypeNode("UndefinedKeyword"), TypeNode("VoidKeyword"),
     TypeNode("StringKeyword"), TypeNode("NumberKeyword"), TypeNode("AnyKeyword"),
     LiteralType("NullKeyword"), LiteralType("StringLiteral"),
     WrapperType("ParenthesizedType", TypeNode("NeverKeyword")),
     WrapperType("ParenthesizedType", LiteralType("NullKeyword")),
     TypeReference(Identifier("A"), "TypeWithConstructSignatureAndValue"),
     TypeReference(QualifiedName(Identifier("A"), "B"),
                   "TypeWithConstructSignatureAndValue"),
     TypeReference(Identifier("A"), "Unknown")}

ListTypes ==
    {TypeList(k, ts) : k \in {"UnionType", "IntersectionType"},
                       ts \in SeqsUpTo(Constituents, MaxConstituents) \ {<<>>}}
    \cup {ConditionalType(t, f) : t, f \in Constituents}

\* An annotation, or none.
TypeAnnotations == {Undefined} \cup LeafTypes \cup WrappedTypes \cup ListTypes

SerializerOptions ==
    {[DefaultOptions EXCEPT !.strictNullChecks = s, !.target = t] :
        s \in BOOLEAN, t \in {ES5, ES2015, ESNext}}

InitSerializer ==
    /\ compilerOptions \in SerializerOptions
    /\ currentSourceFile = ModuleFile
    /\ currentNamespace = NoNode
    /\ currentNamespaceContainerName = NoNode
    /\ currentLexicalScope = currentSourceFile
    /\ currentNameScope = NoNode
    /\ currentScopeFirstDeclarationsOfName = UndefinedMap
    /\ currentClassHasParameterProperties = FALSE
    /\ stack = <<>>
    /\ emitted = <<>>
    /\ nextId = 1
    /\ enabledSubstitutions = {}
    /\ registrations = <<>>
    /\ IdleClasses
    /\ applicableSubstitutions = {}
    /\ result \in {Input(node) : node \in TypeAnnotations}

\* serializeTypeNode on a type annotation; the temporary variables it
\* creates are hoisted.
SerializeTypeNode ==
    /\ result.op = "input"
    /\ \E r \in {serializeTypeNode(compilerOptions, ClassContext, FALSE, result.node)} :
           /\ result' = [op |-> "serializeTypeNode", node |-> result.node,
                         output |-> r.value]
           /\ hoistedVariables' = r.c.hoisted
           /\ nextAutoGenerateId' = r.c.nextAutoGenerateId
    /\ UNCHANGED <<scopeVars, classAliases, applicableSubstitutions>>

NextSerializer == SerializeTypeNode

SpecSerializer == InitSerializer /\ [][NextSerializer]_vars

----------------------------------------------------------------------------
\* The children of a namespace body.
\*
\* A child carries, beside what a node of the general visitor carries, its
\* export modifier and, for an import-equals declaration, the kind of its
\* module reference.

NamespaceElement(node, export, moduleReference) ==
    [export |-> export, moduleReference |-> moduleReference] @@ node

\* The node with the flag of TypeScript syntax somewhere in it.
WithTypeScript(node) == [node EXCEPT !.transformFlags = {ContainsTypeScript}]

\* The kinds that are not legal inside a namespace.
IsModuleSyntax(node) ==
    \/ node.kind \in {"ExportDeclaration", "ImportDeclaration", "ImportClause"}
    \/ /\ node.kind = "ImportEqualsDeclaration"
       /\ node.moduleReference = "ExternalModuleReference"

\* visitTypeScript, with the case of a function declaration.
VisitTypeScriptIn(env, node) ==
    IF AmbientStatement(node) \/ node.kind # "FunctionDeclaration"
    THEN visitTypeScript(node)
    ELSE Visited(visitFunctionDeclaration(env, node), <<>>)

Routed(route, r) == [route |-> route, output |-> r.output, visited |-> r.visited]

namespaceElementVisitorWorker_IgnoresExport(env, node) ==
    IF IsModuleSyntax(node)
    THEN Routed("undefined", Visited(<<>>, <<>>))
    ELSE IF ContainsTypeScript \in node.transformFlags
    THEN Routed("visitTypeScript", VisitTypeScriptIn(env, node))
    ELSE Routed("node", Visited(<<node>>, <<>>))

namespaceElementVisitorWorker(env, node) ==
    IF IsModuleSyntax(node)
    THEN Routed("undefined", Visited(<<>>, <<>>))
    ELSE IF ContainsTypeScript \in node.transformFlags \/ node.export
    THEN Routed("visitTypeScript", VisitTypeScriptIn(env, node))
    ELSE Routed("node", Visited(<<node>>, <<>>))

\* Import and export syntax as a child of a namespace, with and without
\* TypeScript syntax in it and an export modifier on it.
ModuleSyntaxElements ==
    LET plain == {NamespaceElement(SyntaxNode(5, k, <<>>), e, "none") :
                     k \in {"ExportDeclaration", "ImportDeclaration", "ImportClause"},
                     e \in BOOLEAN}
                 \cup {NamespaceElement(SyntaxNode(5, "ImportEqualsDeclaration", <<>>),
                                        e, "ExternalModuleReference") : e \in BOOLEAN}
    IN  plain \cup {WithTypeScript(n) : n \in plain}

\* import a = b.c, which visitTypeScript passes to the default branch here.
EntityNameImports ==
    {NamespaceElement(SyntaxNode(5, "ImportEqualsDeclaration", <<>>), FALSE, "Identifier")}

\* Function declarations: a signature without body is TypeScript syntax, a
\* function with a body may hold some.
FunctionElements ==
    LET f(n, b, e) == NamespaceElement(
                          [transformFlags |-> IF b THEN {} ELSE {ContainsTypeScript},
                           children |-> <<>>, fresh |-> FALSE]
                              @@ FunctionDeclaration(n, b, e),
                          e, "none")
        plain == {f(n, b, e) : n \in Names, b, e \in BOOLEAN}
    IN  plain \cup {WithTypeScript(n) : n \in plain}

StatementElements ==
    {NamespaceElement(n, FALSE, "none") :
        n \in LeafNodes \cup InnerNodes \cup TypeOnlyDeclarations}

NamespaceElements ==
    ModuleSyntaxElements \cup EntityNameImports \cup FunctionElements
        \cup StatementElements

InitNamespaceElement ==
    /\ compilerOptions = DefaultOptions
    /\ currentSourceFile = ModuleFile
    /\ currentNamespace = 1
    /\ currentNamespaceContainerName = 1
    /\ currentLexicalScope = 2
    /\ currentNameScope = NoNode
    /\ currentScopeFirstDeclarationsOfName \in {UndefinedMap}
    /\ currentClassHasParameterProperties = FALSE
    /\ stack = <<>>
    /\ emitted = <<>>
    /\ nextId = 1
    /\ enabledSubstitutions = {}
    /\ registrations = <<>>
    /\ IdleClasses
    /\ applicableSubstitutions = {}
    /\ result \in {Input(node) : node \in NamespaceElements}

\* namespaceElementVisitor(node): saveStateAndInvoke(node, namespaceElementVisitorWorker).
NamespaceElementVisitor ==
    /\ result.op = "input"
    /\ \E r \in {namespaceElementVisitorWorker(Cur, result.node)} :
           result' = [op |-> "namespaceElementVisitor", node |-> result.node,
                      route |-> r.route, output |-> r.output, visited |-> r.visited]
    /\ Assign(StateAfterVisit(Cur, result.node))
    /\ UNCHANGED <<compilerOptions, currentSourceFile, enabledSubstitutions, registrations, stack,
                   emitted, nextId, classVars, applicableSubstitutions>>

NextNamespaceElement == NamespaceElementVisitor

SpecNamespaceElement == InitNamespaceElement /\ [][NextNamespaceElement]_vars

----------------------------------------------------------------------------
\* Readings of the output used by the properties.

IsVarOrMarker(e) == e.stmt \in {"VariableStatement", "MergeDeclarationMarker"}

IsClosure(e) ==
    /\ e.stmt = "ExpressionStatement"
    /\ e.originalKind \in {"ModuleDeclaration", "EnumDeclaration"}

\* The visitModuleDeclaration of this declaration has not returned yet.
InProgress(id) ==
    \E k \in 1..Len(stack) : stack[k].fn = "transformModuleBody" /\ stack[k].node = id

\* The argument of a closure call is E || (E = {}) for a name E of the
\* declaration, as it is or assigned to the local name.
ClosureArgOk(e) ==
    LET core == IF e.arg.kind = "Assignment" THEN e.arg.right ELSE e.arg
    IN  /\ core.kind = "LogicalOr"
        /\ core.right = Assignment(core.left, ObjectLiteral)
        /\ core.left.name = e.name
        /\ e.arg.kind = "Assignment" => e.arg.left = LocalName(e.name)

\* Every namespace or enum declaration that got a variable statement or a
\* merge marker gets one closure call, after it, once its visit is over, and
\* every closure call belongs to one such declaration.
EveryDeclarationGetsItsClosure ==
    /\ \A i \in 1..Len(emitted) :
          IsVarOrMarker(emitted[i]) =>
              LET calls == {k \in 1..Len(emitted) :
                               /\ IsClosure(emitted[k])
                               /\ emitted[k].original = emitted[i].original}
              IN  /\ Cardinality(calls) = IF InProgress(emitted[i].original) THEN 0 ELSE 1
                  /\ \A k \in calls : /\ k > i
                                      /\ emitted[k].container = emitted[i].container
                                      /\ ClosureArgOk(emitted[k])
    /\ \A k \in 1..Len(emitted) :
          IsClosure(emitted[k]) =>
              Cardinality({i \in 1..Len(emitted) :
                              /\ IsVarOrMarker(emitted[i])
                              /\ emitted[i].original = emitted[k].original}) = 1

\* The variable statement goes to the declarations of a name that no
\* statement of one of these kinds precedes in the same place.
VarOnlyForFirstAmong(kinds) ==
    \A i \in 1..Len(emitted) :
        IsVarOrMarker(emitted[i]) =>
            (emitted[i].stmt = "VariableStatement"
             <=> ~\E j \in 1..(i - 1) :
                     /\ emitted[j].stmt \in kinds
                     /\ emitted[j].container = emitted[i].container
                     /\ emitted[j].name = emitted[i].name)

\* C1, as stated: among the emitted namespace and enum declarations of a
\* name N in one lexical scope, the first gets the leading variable
\* statement and every later one a merge marker, and each gets its closure
\* call with N || (N = {}).
C1_MergeFirstWins_AsStated ==
    /\ VarOnlyForFirstAmong({"VariableStatement", "MergeDeclarationMarker"})
    /\ EveryDeclarationGetsItsClosure

\* C1, amended: the leading variable statement goes to the first emitted
\* namespace or enum declaration of N in the scope only when no non-ambient
\* class or function declaration named N was visited before it in that
\* scope; otherwise every namespace or enum declaration of N gets a merge
\* marker.  Each declaration gets its closure call with N || (N = {}).
C1_MergeFirstWins ==
    /\ VarOnlyForFirstAmong({"VariableStatement", "MergeDeclarationMarker",
                             "ClassDeclaration", "FunctionDeclaration"})
    /\ EveryDeclarationGetsItsClosure

\* Two declarations of one name in one scope were lowered: a variable
\* statement, then a merge marker, each with its closure call.
C1_Witness ==
    \E i, j \in 1..Len(emitted) :
        /\ i < j
        /\ emitted[i].stmt = "VariableStatement"
        /\ emitted[j].stmt = "MergeDeclarationMarker"
        /\ emitted[i].name = emitted[j].name
        /\ emitted[i].container = emitted[j].container
        /\ \E k \in (j + 1)..Len(emitted) :
               IsClosure(emitted[k]) /\ emitted[k].original = emitted[j].original
        /\ \E k \in (i + 1)..(j - 1) :
               IsClosure(emitted[k]) /\ emitted[k].original = emitted[i].original

----------------------------------------------------------------------------
\* Readings of a lowered class used by the properties.

ClassLowered == result.op = "visitClassDeclaration" /\ result.accumulated # <<>>

IsClassBinding(st) == st.stmt \in {"ClassDeclaration", "VariableStatement"}
IsMemberDecoration(st) ==
    st.stmt = "ExpressionStatement" /\ st.expression.kind = "DecorateHelper"
IsConstructorDecoration(st) ==
    /\ st.stmt = "ExpressionStatement"
    /\ st.expression.kind = "Assignment"
    /\ \/ st.expression.right.kind = "DecorateHelper"
       \/ /\ st.expression.right.kind = "Assignment"
          /\ st.expression.right.right.kind = "DecorateHelper"

\* The class or a parameter of its first constructor with a body is decorated.
ConstructorIsDecorated(node) ==
    \/ node.decorators
    \/ \E i \in 1..Len(node.members) :
          /\ node.members[i].kind = "Constructor" /\ node.members[i].body
          /\ \A j \in 1..(i - 1) :
                ~(node.members[j].kind = "Constructor" /\ node.members[j].body)
          /\ \E k \in 1..Len(node.members[i].parameters) :
                node.members[i].parameters[k].decorators

\* A member other than a constructor that carries decorators, or a parameter
\* of which does, and that can be decorated (it is a property, or has a body).
IsDecoratedMember(node, i) ==
    LET m == node.members[i]
        p == \E k \in 1..Len(m.parameters) : m.parameters[k].decorators
    IN  \/ m.kind = "PropertyDeclaration" /\ m.decorators
        \/ m.kind = "MethodDeclaration" /\ m.body /\ (m.decorators \/ p)
        \/ m.kind = "GetAccessor" /\ m.body /\ m.decorators
        \/ m.kind = "SetAccessor" /\ m.body /\ (m.decorators \/ p)

\* A member a decoration expression is generated for: a decorated property, a
\* method with a body that is decorated or has a decorated parameter, and of
\* the first two accessors of a name the first one that carries decorators,
\* when it has a body.
GetsDecoration(node, i) ==
    LET m == node.members[i]
        p == \E k \in 1..Len(m.parameters) : m.parameters[k].decorators
        pair == {j \in 1..Len(node.members) :
                    /\ node.members[j].kind \in {"GetAccessor", "SetAccessor"}
                    /\ node.members[j].name = m.name
                    /\ node.members[j].static = m.static}
        firstTwo == {j \in pair : Cardinality({h \in pair : h < j}) < 2}
    IN  \/ m.kind = "PropertyDeclaration" /\ m.decorators
        \/ m.kind = "MethodDeclaration" /\ m.body /\ (m.decorators \/ p)
        \/ /\ m.kind \in {"GetAccessor", "SetAccessor"}
           /\ m.body /\ m.decorators
           /\ i \in firstTwo
           /\ \A j \in firstTwo : j < i => ~node.members[j].decorators

\* The members of a staticness that satisfy P, in source order.
MembersInSourceOrder(node, static, P(_, _)) ==
    SelectSeq([i \in 1..Len(node.members) |-> i],
              LAMBDA i : node.members[i].static = static /\ P(node, i))

\* The accumulated list is the class binding, a decoration per member
\* satisfying P (non-static ones first, each group in source order), and the
\* constructor decoration when the class or its constructor is decorated.
DecorationOrder(P(_, _)) ==
    LET node == result.node
        acc == result.accumulated
        last == IF ConstructorIsDecorated(node) THEN 1 ELSE 0
        middle == SubSeq(acc, 2, Len(acc) - last)
    IN  /\ Len(acc) >= 1 + last
        /\ IsClassBinding(acc[1])
        /\ \A k \in 1..Len(middle) : IsMemberDecoration(middle[k])
        /\ [k \in 1..Len(middle) |-> middle[k].expression.member]
             = MembersInSourceOrder(node, FALSE, P) \o MembersInSourceOrder(node, TRUE, P)
        /\ last = 1 => IsConstructorDecoration(acc[Len(acc)])

\* C2 as stated: the list accumulated for a class on the TypeScript-syntax
\* path is the class binding, then one decorate statement per decorated
\* non-static member in source order, then one per decorated static member in
\* source order, then the constructor decoration when the class or its
\* constructor parameters are decorated.
C2_DecoratorOrdering_AsStated == ClassLowered => DecorationOrder(IsDecoratedMember)

\* C2, amended: the list accumulated for a class on the TypeScript-syntax path
\* is the class binding, then one decorate statement per non-static member a
\* decoration expression is generated for (a decorated property, a method
\* with a body that is decorated or has a decorated parameter, the first
\* decorated accessor of a get/set pair), in source order, then the same for
\* the static members, then the constructor decoration when the class or its
\* constructor parameters are decorated; whatever the interleaving of static
\* and non-static members in the source.
C2_DecoratorOrdering == ClassLowered => DecorationOrder(GetsDecoration)

\* C2: a decorated class whose decorated static property comes before its
\* decorated non-static property; the non-static one is decorated first.
C2_Witness ==
    /\ ClassLowered
    /\ result.node.decorators
    /\ Len(result.node.members) = 2
    /\ result.node.members[1].static /\ result.node.members[1].decorators
    /\ ~result.node.members[2].static /\ result.node.members[2].decorators
    /\ result.node.members[2].kind = "PropertyDeclaration"
    /\ Len(result.accumulated) = 4
    /\ result.accumulated[2].expression.member = 2
    /\ result.accumulated[3].expression.member = 1
    /\ IsConstructorDecoration(result.accumulated[4])

----------------------------------------------------------------------------
\* Class aliases.

\* A class with constructor-level decorators that the oracle flags as
\* referring to its own constructor has just been lowered.
AliasedClassLowered ==
    /\ ClassLowered
    /\ ConstructorIsDecorated(result.node)
    /\ result.node.classWithConstructorReference

\* The statements the class's variables are hoisted into: those of the
\* wrapper when the class is wrapped, else the enclosing environment.
HoistedAround(alias) ==
    LET out == result.output
        names == IF "UseImmediatelyInvokedFunctionExpression" \in result.facts
                 THEN LET inner == out[1].initializer.statements
                      IN  IF inner[1].stmt = "HoistedVariableStatement"
                          THEN inner[1].names ELSE <<>>
                 ELSE hoistedVariables
    IN  Cardinality({k \in 1..Len(names) : names[k] = alias}) = 1

AliasCreatedAndBound ==
    LET node == result.node
        acc == result.accumulated
        alias == classAliases.at[node.id]
        binding == acc[1]
        decoration == acc[Len(acc)]
    IN  /\ classAliases.defined
        /\ ClassAliases \in enabledSubstitutions
        /\ alias.kind = "UniqueName"
        /\ \A other \in 1..MaxNodes : other # node.id => classAliases.at[other] # alias
        /\ HoistedAround(alias)
        /\ binding.stmt = "VariableStatement"
        /\ binding.initializer.kind = "Assignment"
        /\ binding.initializer.left = alias
        /\ binding.initializer.right.kind = "ClassExpression"
        /\ IsConstructorDecoration(decoration)
        /\ decoration.expression.left = binding.name
        /\ decoration.expression.right.kind = "Assignment"
        /\ decoration.expression.right.left = alias
        /\ decoration.expression.right.right.kind = "DecorateHelper"

\* The printer has just substituted an identifier flagged as a constructor
\* reference whose declaration is a class that has an alias.
AliasedReferencePrinted ==
    /\ result.op = "substituteExpressionIdentifier"
    /\ result.node.constructorReferenceInClass
    /\ result.node.declaration # NoNode
    /\ classAliases.defined
    /\ classAliases.at[result.node.declaration] # NoAlias

ReplacedByCloneOfAlias ==
    LET alias == classAliases.at[result.node.declaration]
    IN  result.output = <<[alias EXCEPT !.kind = "CloneOfUniqueName"]>>

----------------------------------------------------------------------------
\* Parameter properties.

MembersTransformed == result.op = "transformClassMembers"

\* The first constructor with a body of the class just transformed.
TheConstructor ==
    LET ms == result.node.members
    IN  ms[CHOOSE i \in 1..Len(ms) :
              /\ ms[i].kind = "Constructor" /\ ms[i].body
              /\ \A j \in 1..(i - 1) : ~(ms[j].kind = "Constructor" /\ ms[j].body)]

\* Its position among the members.
TheConstructorIndex ==
    LET ms == result.node.members
    IN  CHOOSE i \in 1..Len(ms) : ms[i] = TheConstructor /\ ms[i].body

\* Its identifier-named parameters carrying a modifier, in parameter order.
ParameterProperties ==
    SelectSeq(TheConstructor.parameters,
              LAMBDA p : p.modifier /\ p.nameKind = "Identifier")

HasParameterProperty ==
    \E k \in 1..Len(TheConstructor.parameters) : TheConstructor.parameters[k].modifier

\* (a) a property without initializer per parameter property, in parameter
\* order, then the original members that are emitted, in source order.
PromotedBeforeMembers ==
    LET out == result.output
        props == ParameterProperties
        ms == result.node.members
        kept == SelectSeq([i \in 1..Len(ms) |-> i],
                          LAMBDA i : ms[i].kind = "PropertyDeclaration" \/ ms[i].body)
    IN  /\ Len(out) = Len(props) + Len(kept)
        /\ \A k \in 1..Len(props) :
              /\ out[k].kind = "PropertyDeclaration"
              /\ out[k].parameter = props[k].id
              /\ out[k].original = 0
              /\ ~out[k].initializer
        /\ \A k \in 1..Len(kept) :
              /\ out[Len(props) + k].original = kept[k]
              /\ out[Len(props) + k].parameter = 0

\* (b) the body: the leading prologue directives and the super call that
\* directly follows them, an assignment per parameter property in parameter
\* order, then the other statements, each original statement once and in order.
BodyWithAssignments ==
    LET props == ParameterProperties
        sts == TheConstructor.statements
        body == (CHOOSE m \in {result.output[k] : k \in 1..Len(result.output)} :
                    m.original = TheConstructorIndex).body
        prologue == CHOOSE n \in 0..Len(sts) :
                       /\ \A k \in 1..n : sts[k].kind = "PrologueDirective"
                       /\ n < Len(sts) => sts[n + 1].kind # "PrologueDirective"
        first == IF prologue < Len(sts) /\ sts[prologue + 1].kind = "SuperCall"
                 THEN prologue + 1 ELSE prologue
    IN  /\ Len(body) = Len(sts) + Len(props)
        /\ \A k \in 1..first : body[k].original = k /\ body[k].parameter = 0
        /\ \A k \in 1..Len(props) :
              /\ body[first + k].stmt = "ParameterPropertyAssignment"
              /\ body[first + k].parameter = props[k].id
        /\ \A k \in (first + 1)..Len(sts) :
              /\ body[Len(props) + k].original = k
              /\ body[Len(props) + k].parameter = 0

----------------------------------------------------------------------------
\* Enum members.

EnumBodyTransformed == result.op = "transformEnumBody"

\* container[name] = value
IsForwardAssignment(e, name) ==
    /\ e.kind = "Assignment"
    /\ e.left = ElementAccess(EnumLocalName, PropertyNameExpr(name))

\* container[container[name] = value] = name
IsReverseMapping(e, name) ==
    /\ e.kind = "Assignment"
    /\ e.right = PropertyNameExpr(name)
    /\ e.left.kind = "ElementAccessExpression"
    /\ e.left.expression = EnumLocalName
    /\ IsForwardAssignment(e.left.argumentExpression, name)

\* The kind of a member's value expression: the literal of the constant the
\* oracle gives, else the lowered initializer, else void 0.
ValueExpressionKind(member) ==
    CASE member.constantValue = "string" -> "StringLiteral"
      [] member.constantValue = "number" -> "NumericLiteral"
      [] member.initializer = "none" -> "VoidZero"
      [] member.initializer = "AsExpression" -> "PartiallyEmittedExpression"
      [] OTHER -> member.initializer

\* C4: every member of an emitted enum becomes exactly one expression
\* statement, the forward assignment container[name] = value alone when the
\* member's value expression is a string literal, and the reverse-mapping form
\* container[container[name] = value] = name in every other case (numeric
\* constant, lowered non-constant initializer, void 0).
C4_EnumReverseMapping ==
    EnumBodyTransformed =>
        /\ Len(result.output) = Len(result.node)
        /\ \A i \in 1..Len(result.node) :
              LET member == result.node[i]
                  st == result.output[i]
              IN  /\ st.stmt = "ExpressionStatement"
                  /\ IF ValueExpressionKind(member) = "StringLiteral"
                     THEN /\ IsForwardAssignment(st.expression, member.name)
                          /\ st.expression.right.kind = "StringLiteral"
                     ELSE /\ IsReverseMapping(st.expression, member.name)
                          /\ st.expression.left.argumentExpression.right.kind
                                = ValueExpressionKind(member)

\* C4: an enum with a string-valued member and a member without constant
\* value or initializer; the first gets the forward assignment alone, the
\* second the reverse mapping of void 0.
C4_Witness ==
    /\ EnumBodyTransformed
    /\ Len(result.node) = 2
    /\ result.node[1].constantValue = "string"
    /\ result.node[2].constantValue = "undefined" /\ result.node[2].initializer = "none"
    /\ IsForwardAssignment(result.output[1].expression, result.node[1].name)
    /\ IsReverseMapping(result.output[2].expression, result.node[2].name)
    /\ result.output[2].expression.left.argumentExpression.right.kind = "VoidZero"

----------------------------------------------------------------------------
\* Import and export elision.

\* The statement has been handled, by elision or by passing it through.
StatementHandled == result.op \notin {"none", "input"}

Retained == result.output # Undefined

\* The named imports of an import clause, none when it has no such list.
NamedImportsOf(clause) ==
    IF clause # Undefined /\ clause.namedBindings # Undefined
       /\ clause.namedBindings.kind = "NamedImports"
    THEN clause.namedBindings.elements
    ELSE <<>>

HasNamedImports(node) ==
    /\ node.importClause # Undefined
    /\ node.importClause.namedBindings # Undefined
    /\ node.importClause.namedBindings.kind = "NamedImports"

\* The oracle reports the alias as referenced: isReferencedAliasDeclaration,
\* or isValueAliasDeclaration under preserveValueImports.
ReportedReferenced(node) ==
    \/ compilerOptions.preserveValueImports /\ node.isValueAliasDeclaration
    \/ ~compilerOptions.preserveValueImports /\ node.isReferencedAliasDeclaration

LoweredImportClause ==
    IF Retained THEN result.output.importClause ELSE Undefined

\* C5: when a non-type-only import declaration with named imports is
\* lowered, the named imports of the lowered import clause are exactly the
\* specifiers that are not type-only and that the oracle reports as
\* referenced, in their original order.
C5_ImportElisionKeepsReferenced ==
    (/\ result.op = "visitImportDeclaration"
     /\ HasNamedImports(result.node)
     /\ ~result.node.importClause.isTypeOnly)
    => NamedImportsOf(LoweredImportClause)
         = SelectSeq(result.node.importClause.namedBindings.elements,
                     LAMBDA e : ~e.isTypeOnly /\ ReportedReferenced(e))

\* C5: of two specifiers the first is type-only and reported as
\* referenced, the second is referenced; the lowered clause holds the second.
C5_Witness ==
    /\ result.op = "visitImportDeclaration"
    /\ HasNamedImports(result.node)
    /\ ~result.node.importClause.isTypeOnly
    /\ Len(result.node.importClause.namedBindings.elements) = 2
    /\ result.node.importClause.namedBindings.elements[1].isTypeOnly
    /\ ReportedReferenced(result.node.importClause.namedBindings.elements[1])
    /\ ~result.node.importClause.namedBindings.elements[2].isTypeOnly
    /\ compilerOptions.preserveValueImports
    /\ ~result.node.importClause.namedBindings.elements[2].isReferencedAliasDeclaration
    /\ Retained
    /\ Len(NamedImportsOf(result.output.importClause)) = 1
    /\ NamedImportsOf(result.output.importClause)[1].name = 2

\* What the oracle says of a construct or of one of its bindings.
OracleReports(node) ==
    CASE node.kind = "ImportDeclaration" ->
            /\ node.importClause # Undefined
            /\ \/ node.importClause.name # NoName /\ ReportedReferenced(node.importClause)
               \/ /\ node.importClause.namedBindings # Undefined
                  /\ node.importClause.namedBindings.kind = "NamespaceImport"
                  /\ ReportedReferenced(node.importClause.namedBindings)
               \/ \E i \in 1..Len(NamedImportsOf(node.importClause)) :
                      ReportedReferenced(NamedImportsOf(node.importClause)[i])
      [] node.kind = "ImportEqualsDeclaration" ->
            \/ ReportedReferenced(node)
            \/ node.isTopLevelValueImportEqualsWithEntityName
      [] node.kind = "ExportAssignment" -> node.isValueAliasDeclaration
      [] node.kind = "ExportDeclaration" ->
            /\ node.exportClause # Undefined
            /\ node.exportClause.kind = "NamedExports"
            /\ \E i \in 1..Len(node.exportClause.elements) :
                   node.exportClause.elements[i].isValueAliasDeclaration

BareImport(node) == node.kind = "ImportDeclaration" /\ node.importClause = Undefined

\* C8 as stated: a construct is retained only if the oracle reports it or
\* one of its bindings as value-referenced, a bare import excepted.
C8_RetainedOnlyIfReferenced_AsStated ==
    (StatementHandled /\ Retained)
    => (OracleReports(result.node) \/ BareImport(result.node))

KeptByPolicy(node) ==
    \/ /\ node.kind = "ImportDeclaration"
       /\ compilerOptions.importsNotUsedAsValues \in {"Preserve", "Error"}
    \/ /\ node.kind = "ExportDeclaration"
       /\ node.moduleSpecifier
       /\ compilerOptions.importsNotUsedAsValues \in {"Preserve", "Error"}
    \/ /\ node.kind = "ImportEqualsDeclaration"
       /\ node.moduleReference = "ExternalModuleReference"
       /\ compilerOptions.importsNotUsedAsValues = "Preserve"

ExportOfWholeModule(node) ==
    /\ node.kind = "ExportDeclaration"
    /\ \/ node.exportClause = Undefined
       \/ node.exportClause.kind = "NamespaceExport"

\* C8: a construct is retained only if the oracle reports it or one of its
\* bindings as value-referenced, or it is a bare import, or
\* importsNotUsedAsValues keeps it (an import declaration or an export from
\* a module under Preserve or Error, an import-equals of an external module
\* under Preserve), or it is an export declaration without export clause or
\* with a namespace export, or it is not its own parse tree node.
C8_RetainedOnlyIfReferenced ==
    (StatementHandled /\ Retained)
    => \/ OracleReports(result.node)
       \/ BareImport(result.node)
       \/ KeptByPolicy(result.node)
       \/ ExportOfWholeModule(result.node)
       \/ result.op = "noElision"

\* C8: an import declaration none of whose bindings is reported is retained,
\* without import clause, under importsNotUsedAsValues = Error.
C8_Witness ==
    /\ result.op = "visitImportDeclaration"
    /\ ~BareImport(result.node)
    /\ ~OracleReports(result.node)
    /\ compilerOptions.importsNotUsedAsValues = "Error"
    /\ Retained
    /\ result.output.importClause = Undefined

IsTypeOnlyStatement(node) ==
    \/ node.kind = "ImportDeclaration" /\ node.importClause # Undefined
                                       /\ node.importClause.isTypeOnly
    \/ node.kind \in {"ImportEqualsDeclaration", "ExportDeclaration"} /\ node.isTypeOnly

\* The specifiers of the output, of an import or of an export declaration.
SpecifiersOf(node) ==
    CASE node.kind = "ImportDeclaration" -> NamedImportsOf(node.importClause)
      [] node.kind = "ExportDeclaration" /\ node.exportClause # Undefined
            /\ node.exportClause.kind = "NamedExports" -> node.exportClause.elements
      [] OTHER -> <<>>

ElisionApplied ==
    result.op \in {"visitImportDeclaration", "visitImportEqualsDeclaration",
                   "visitExportAssignment", "visitExportDeclaration"}

ImportWithClauseLowered ==
    /\ result.op = "visitImportDeclaration"
    /\ result.node.importClause # Undefined
    /\ ~result.node.importClause.isTypeOnly

DefaultNameElided(clause) ==
    clause.name = NoName \/ ~ReportedReferenced(clause)

\* No named or namespace binding of the clause survives.
BindingsElided(clause) ==
    \/ clause.namedBindings = Undefined
    \/ /\ clause.namedBindings.kind = "NamespaceImport"
       /\ ~ReportedReferenced(clause.namedBindings)
    \/ /\ clause.namedBindings.kind = "NamedImports"
       /\ \A i \in 1..Len(clause.namedBindings.elements) :
              \/ clause.namedBindings.elements[i].isTypeOnly
              \/ ~ReportedReferenced(clause.namedBindings.elements[i])

ElidedEntirelyIffNothingKeepsIt ==
    ImportWithClauseLowered =>
        (~Retained <=>
            /\ DefaultNameElided(result.node.importClause)
            /\ BindingsElided(result.node.importClause)
            /\ compilerOptions.importsNotUsedAsValues \notin {"Preserve", "Error"})

KeptWithNoSurvivingBinding ==
    /\ ImportWithClauseLowered
    /\ DefaultNameElided(result.node.importClause)
    /\ BindingsElided(result.node.importClause)
    /\ compilerOptions.importsNotUsedAsValues \in {"Preserve", "Error"}

\* The named-import list is kept though it is empty.
EmptyListKept(clause) ==
    /\ compilerOptions.preserveValueImports
    /\ clause.namedBindings # Undefined
    /\ clause.namedBindings.kind = "NamedImports"

\* C10 as stated: the declaration is elided entirely iff its default name
\* and its bindings are elided and the policy is neither Preserve nor Error;
\* kept by the policy with no surviving binding, it has no import clause.
C10_ElidedEntirely_AsStated ==
    /\ ElidedEntirelyIffNothingKeepsIt
    /\ KeptWithNoSurvivingBinding => result.output.importClause = Undefined

\* C10: the declaration is elided entirely iff its default name and its
\* bindings are elided and the policy is neither Preserve nor Error; kept by
\* the policy with no surviving binding, it has no import clause, unless it
\* has a named-import list and preserveValueImports is set: then it has an
\* import clause without name that holds the empty list.
C10_ElidedEntirely ==
    /\ ElidedEntirelyIffNothingKeepsIt
    /\ KeptWithNoSurvivingBinding =>
          /\ Retained
          /\ IF EmptyListKept(result.node.importClause)
             THEN /\ result.output.importClause # Undefined
                  /\ result.output.importClause.name = NoName
                  /\ result.output.importClause.namedBindings = NamedImports(<<>>)
             ELSE result.output.importClause = Undefined

\* C10: a declaration with an unreferenced default name and one unreferenced
\* specifier is elided under Remove.
C10_Witness ==
    /\ ImportWithClauseLowered
    /\ result.node.importClause.name # NoName
    /\ Len(NamedImportsOf(result.node.importClause)) = 1
    /\ ~NamedImportsOf(result.node.importClause)[1].isTypeOnly
    /\ DefaultNameElided(result.node.importClause)
    /\ BindingsElided(result.node.importClause)
    /\ compilerOptions.importsNotUsedAsValues = "Remove"
    /\ ~Retained

----------------------------------------------------------------------------
\* The fast path of the general visitor.

HasNoTypeScript(node) == ContainsTypeScript \notin node.transformFlags

\* C7: for every node without the ContainsTypeScript transform flag the
\* general visitor returns the input node itself, not a copy, and invokes
\* no visitor on any node below it.
C7_FastPath ==
    (result.op = "visitor" /\ HasNoTypeScript(result.node))
    => /\ result.output = <<result.node>>
       /\ ~result.output[1].fresh
       /\ result.visited = <<>>

\* C7: a block without TypeScript syntax whose last statement has a child
\* of its own is returned as it is with none of them visited.
C7_Witness ==
    /\ result.op = "visitor"
    /\ HasNoTypeScript(result.node)
    /\ Len(result.node.children) = 2
    /\ result.node.children[2].children # <<>>
    /\ result.output = <<result.node>>
    /\ result.visited = <<>>

----------------------------------------------------------------------------
\* Declarations without a body.

FunctionLikeVisited == result.op \in {"classElementVisitor", "visitFunctionDeclaration"}

BodyMissing == ~result.node.body

IsAccessor(node) == node.kind \in {"GetAccessor", "SetAccessor"}

\* Nothing for a class member, a not-emitted statement for a function.
ElidedEntirely ==
    IF result.op = "visitFunctionDeclaration"
    THEN result.output = <<createNotEmittedStatement(result.node)>>
    ELSE result.output = <<>>

\* A declaration of the output has a block created in place of its body.
EmittedWithCreatedBlock ==
    \E i \in 1..Len(result.output) :
        /\ "block" \in DOMAIN result.output[i]
        /\ result.output[i].block = "created"

\* C11 as stated: a constructor, method, accessor or function declaration
\* without a body is elided entirely, and no declaration is emitted with a
\* synthesized body.
C11_BodylessElision_AsStated ==
    FunctionLikeVisited =>
        /\ BodyMissing => ElidedEntirely
        /\ ~EmittedWithCreatedBlock

\* C11: a constructor, method or function declaration without a body is
\* elided entirely and none of them is emitted with a synthesized body; an
\* accessor without a body is elided only if it is abstract, and is emitted
\* with an empty block created as its body if it is not.
C11_BodylessElision ==
    FunctionLikeVisited =>
        /\ (BodyMissing /\ ~IsAccessor(result.node)) => ElidedEntirely
        /\ (BodyMissing /\ IsAccessor(result.node)) =>
              IF result.node.abstract
              THEN ElidedEntirely
              ELSE /\ Len(result.output) = 1
                   /\ result.output[1].kind = result.node.kind
                   /\ result.output[1].block = "created"
        /\ EmittedWithCreatedBlock => (BodyMissing /\ IsAccessor(result.node))

\* C11: a method without a body that is not abstract (an overload
\* signature) gives no member.
C11_Witness ==
    /\ result.op = "classElementVisitor"
    /\ result.node.kind = "MethodDeclaration"
    /\ BodyMissing /\ ~result.node.abstract
    /\ result.output = <<>>

----------------------------------------------------------------------------
\* The serializer of type annotations.

TypeSerialized == result.op = "serializeTypeNode"

\* The forms a serialized type has: an identifier or a property access
\* naming a constructor, void 0, or a conditional expression guarding one.
IsRuntimeForm(e) ==
    e.kind \in {"Identifier", "PropertyAccessExpression", "VoidZero", "ConditionalExpression"}

\* C12 as stated: for every type annotation serializeTypeNode returns one of
\* its runtime forms and never fails.
C12_SerializerTotal_AsStated ==
    TypeSerialized => (result.output # DebugFailure /\ IsRuntimeForm(result.output))

\* C13 as stated: an absent annotation, void and never are each serialized
\* to void 0.
C13_NoValueMarker_AsStated ==
    (/\ TypeSerialized
     /\ \/ result.node = Undefined
        \/ result.node.kind \in {"VoidKeyword", "NeverKeyword"})
    => result.output = VoidZero

\* C13: the void, never and undefined types are each serialized to void 0,
\* an absent annotation to the identifier Object.
C13_NoValueMarker ==
    TypeSerialized =>
        /\ result.node = Undefined => result.output = Identifier("Object")
        /\ (/\ result.node # Undefined
            /\ result.node.kind \in {"VoidKeyword", "NeverKeyword", "UndefinedKeyword"})
           => result.output = VoidZero

\* C13: no annotation, serialized to Object.
C13_Witness ==
    /\ TypeSerialized
    /\ result.node = Undefined
    /\ result.output = Identifier("Object")

\* The constituents of a union, intersection or conditional type.
IsTypeList(node) ==
    node # Undefined /\ node.kind \in {"UnionType", "IntersectionType", "ConditionalType"}

ConstituentsOf(node) ==
    IF node.kind = "ConditionalType" THEN <<node.trueType, node.falseType>> ELSE node.types

\* The constituents that remain: never is left out always, null and
\* undefined when strictNullChecks is off.
RemainingConstituents(node) ==
    SelectSeq([i \in 1..Len(ConstituentsOf(node)) |-> SkipParentheses(ConstituentsOf(node)[i])],
              LAMBDA t : ~(\/ t.kind = "NeverKeyword"
                           \/ /\ ~compilerOptions.strictNullChecks
                              /\ \/ t.kind = "UndefinedKeyword"
                                 \/ t.kind = "LiteralType" /\ t.literal = "NullKeyword"))

\* What each remaining constituent serializes to on its own.
RemainingSerialized(node) ==
    [i \in 1..Len(RemainingConstituents(node)) |->
        serializeTypeNode(compilerOptions,
                          [ClassContext EXCEPT !.nextAutoGenerateId = 1, !.hoisted = <<>>],
                          node.kind = "ConditionalType",
                          RemainingConstituents(node)[i]).value]

SomeIsObject(forms) == \E i \in 1..Len(forms) : forms[i] = Identifier("Object")

AllTheSameIdentifier(forms) ==
    \A i \in 1..Len(forms) : isIdentifier(forms[i]) /\ forms[i] = forms[1]

\* C14 as stated: void 0 when no constituent remains, the identifier all
\* remaining constituents serialize to, and Object when they disagree or
\* one of them serializes to Object.
C14_UnionCollapse_AsStated ==
    (TypeSerialized /\ IsTypeList(result.node)) =>
        LET forms == RemainingSerialized(result.node)
        IN  result.output =
                IF forms = <<>> THEN VoidZero
                ELSE IF SomeIsObject(forms) THEN Identifier("Object")
                ELSE IF AllTheSameIdentifier(forms) THEN forms[1]
                ELSE Identifier("Object")

\* C14: void 0 when no constituent remains; what the constituent serializes
\* to, of whatever form, when exactly one remains; with two or more, the
\* identifier they all serialize to, and Object when one of them serializes
\* to Object, to another identifier or to a form that is no identifier.
C14_UnionCollapse ==
    (TypeSerialized /\ IsTypeList(result.node)) =>
        LET forms == RemainingSerialized(result.node)
        IN  result.output =
                IF forms = <<>> THEN VoidZero
                ELSE IF SomeIsObject(forms) THEN Identifier("Object")
                ELSE IF Len(forms) = 1 \/ AllTheSameIdentifier(forms) THEN forms[1]
                ELSE Identifier("Object")

\* C14: of `A | null` without strictNullChecks, A unresolved, only A
\* remains, and the union is serialized to the guarded reference to A.
C14_Witness ==
    /\ TypeSerialized
    /\ IsTypeList(result.node)
    /\ result.node.kind = "UnionType"
    /\ ~compilerOptions.strictNullChecks
    /\ Len(result.node.types) = 2
    /\ result.node.types[1] = TypeReference(Identifier("A"), "Unknown")
    /\ result.node.types[2] = LiteralType("NullKeyword")
    /\ result.output.kind = "ConditionalExpression"
    /\ hoistedVariables # <<>>

----------------------------------------------------------------------------
\* C15: ambient statements, interfaces and type aliases.

\* The statements the claim is about.
IsTypeOnlyOrAmbient(node) ==
    \/ node.kind \in VisitedStatementKinds /\ node.ambient
    \/ node.kind \in {"InterfaceDeclaration", "TypeAliasDeclaration"}

\* A not-emitted placeholder that is linked to the node and is nothing else.
IsPlaceholderOf(out, node) ==
    /\ out.kind = "NotEmittedStatement"
    /\ out.id = node.id
    /\ out.fresh
    /\ out.children = <<>>

NoChildVisited(node, visited) ==
    \A i \in 1..Len(node.children) :
        \A j \in 1..Len(visited) : visited[j] # node.children[i]

\* The positions of a list of statements that satisfy P.
PositionsWhere(nodes, P(_)) == {i \in 1..Len(nodes) : P(nodes[i])}

IsPlaceholder(node) == node.kind = "NotEmittedStatement"

\* C15: an ambient statement, an interface declaration and a type alias
\* declaration are each replaced by exactly one not-emitted placeholder
\* linked to the original node and no visitor is invoked on a child of
\* theirs; among the statements of a visited block there is one placeholder
\* for each of them and no other statement stands for them.
C15_TypeOnlyReplacedByPlaceholder ==
    result.op = "visitor" =>
        /\ IsTypeOnlyOrAmbient(result.node) =>
               /\ Len(result.output) = 1
               /\ IsPlaceholderOf(result.output[1], result.node)
               /\ result.visited = <<>>
        /\ (~IsTypeOnlyOrAmbient(result.node) /\ result.node.kind \in DefaultKinds) =>
               /\ Len(result.output) = 1
               /\ Cardinality(PositionsWhere(result.output[1].children, IsPlaceholder))
                      = Cardinality(PositionsWhere(result.node.children, IsTypeOnlyOrAmbient))
               /\ \A j \in PositionsWhere(result.output[1].children, IsPlaceholder) :
                      \E i \in PositionsWhere(result.node.children, IsTypeOnlyOrAmbient) :
                          IsPlaceholderOf(result.output[1].children[j],
                                          result.node.children[i])
               /\ \A i \in PositionsWhere(result.node.children, IsTypeOnlyOrAmbient) :
                      NoChildVisited(result.node.children[i], result.visited)

\* C15: a block of `declare var` with two parts and another statement was
\* visited: the placeholder and the other statement are its statements.
C15_Witness ==
    /\ result.op = "visitor"
    /\ result.node.kind = "Block"
    /\ Len(result.node.children) = 2
    /\ result.node.children[1].kind = "VariableStatement"
    /\ result.node.children[1].ambient
    /\ Len(result.node.children[1].children) = 2
    /\ Len(result.output) = 1
    /\ result.output[1].children[1].kind = "NotEmittedStatement"
    /\ result.output[1].children[2] = result.node.children[2]
    /\ result.visited = result.node.children

----------------------------------------------------------------------------
\* C16: the wrapping closure of a class.

UsesWrapper == "UseImmediatelyInvokedFunctionExpression" \in result.facts

HasAnyDecorator(node) ==
    \/ ConstructorIsDecorated(node)
    \/ \E i \in 1..Len(node.members) : IsDecoratedMember(node, i)

HasStaticInitializedProperty(node) ==
    \E i \in 1..Len(node.members) :
        /\ node.members[i].kind = "PropertyDeclaration"
        /\ node.members[i].static
        /\ node.members[i].initializer

WrapperWhenStated ==
    UsesWrapper <=> /\ compilerOptions.target <= ES5
                    /\ \/ HasAnyDecorator(result.node)
                       \/ HasStaticInitializedProperty(result.node)

IsReturnOfClass(st) ==
    st.stmt = "ReturnStatement" /\ st.expression.node = result.node.id

\* The statements of the closure that are not declarations of hoisted
\* temporaries.
ClosureStatements(iife) ==
    SelectSeq(iife.statements, LAMBDA st : st.stmt # "HoistedVariableStatement")

\* The output begins with one variable statement of the given flags that
\* binds the local name of the class to a closure, whose statements are the
\* accumulated ones and a return of the class.
WrappedInOneClosure(flags, statementsOf(_)) ==
    LET first == result.output[1]
    IN  /\ first.stmt = "VariableStatement"
        /\ first.flags = flags
        /\ first.name = NameOfNode("LocalName", result.node)
        /\ first.initializer.kind = "ImmediatelyInvokedArrowFunction"
        /\ Len(statementsOf(first.initializer)) = Len(result.accumulated) + 1
        /\ SubSeq(statementsOf(first.initializer), 1, Len(result.accumulated))
              = result.accumulated
        /\ IsReturnOfClass(statementsOf(first.initializer)[Len(result.accumulated) + 1])
        /\ \A i \in 2..Len(result.output) :
              /\ result.output[i].stmt \in {"ExportDefault", "ExternalModuleExport",
                                            "ExpressionStatement", "EndOfDeclarationMarker"}
              /\ \A j \in 1..Len(result.accumulated) :
                    result.output[i] # result.accumulated[j]

NoModifiersInside ==
    \A i \in 1..Len(result.accumulated) :
        result.accumulated[i].stmt = "ClassDeclaration" =>
            result.accumulated[i].modifiers = <<>>

AllStatementsOf(iife) == iife.statements

\* C16 as stated: the closure holds the accumulated statements and the
\* return and nothing else, and is bound by a `let` declaration.
C16_ClassWrapping_AsStated ==
    ClassLowered =>
        /\ WrapperWhenStated
        /\ UsesWrapper =>
               /\ WrappedInOneClosure("Let", AllStatementsOf)
               /\ NoModifiersInside

\* C16: the wrapping fact is set exactly when the target is ES5 or lower and
\* the class has a decorator or a static initialized property; the
\* accumulated statements and a return of the class are then the statements
\* of one immediately-invoked function, after the declaration of the
\* temporaries hoisted meanwhile, which a single `var` declaration of the
\* class name is bound to in place of the list, and the class declaration
\* inside has no modifiers.
C16_ClassWrapping ==
    ClassLowered =>
        /\ WrapperWhenStated
        /\ UsesWrapper =>
               /\ WrappedInOneClosure("None", ClosureStatements)
               /\ NoModifiersInside
               /\ \A i \in 1..Len(result.output[1].initializer.statements) :
                      result.output[1].initializer.statements[i].stmt
                          = "HoistedVariableStatement" => i = 1

\* C16: an exported class with a static initialized property and no
\* decorator was lowered for ES5: its declaration is inside the closure,
\* without the export modifier.
C16_Witness ==
    /\ ClassLowered
    /\ UsesWrapper
    /\ result.node.export
    /\ ~HasAnyDecorator(result.node)
    /\ HasStaticInitializedProperty(result.node)
    /\ result.accumulated[1].stmt = "ClassDeclaration"
    /\ result.output[1].initializer.statements[1] = result.accumulated[1]
    /\ Len(result.output) > 1

----------------------------------------------------------------------------
\* C17: the value of an enum member.

\* The value expression in the statement of a member.
ValueIn(st) ==
    IF st.expression.left.argumentExpression.kind = "Assignment"
    THEN st.expression.left.argumentExpression.right
    ELSE st.expression.right

HasConstantValue(member) == member.constantValue # "undefined"

\* C17: the value of a member is the literal of the oracle's constant (string
\* literal for a string, numeric literal for a number) when there is one, and
\* the initializer is then not visited; else it is the lowered initializer,
\* or void 0 without one.  The substitution of non-qualified enum members is
\* enabled after the body iff it was before or some member had no constant
\* value, and no other substitution changes.
C17_EnumMemberValue ==
    EnumBodyTransformed =>
        /\ \A i \in 1..Len(result.node) :
              /\ ValueIn(result.output[i]).kind = ValueExpressionKind(result.node[i])
              /\ HasConstantValue(result.node[i]) => i \notin result.lowered
              /\ i \in result.lowered <=>
                     /\ ~HasConstantValue(result.node[i])
                     /\ result.node[i].initializer # "none"
        /\ NonQualifiedEnumMembers \in enabledSubstitutions <=>
               \/ NonQualifiedEnumMembers \in result.enabledBefore
               \/ \E i \in 1..Len(result.node) : ~HasConstantValue(result.node[i])
        /\ enabledSubstitutions \ {NonQualifiedEnumMembers}
               = result.enabledBefore \ {NonQualifiedEnumMembers}

\* C17: an enum of a member with a constant and a type assertion as
\* initializer, and of a member with neither: the first is the literal and
\* its initializer is left alone, and the substitution becomes enabled.
C17_Witness ==
    /\ EnumBodyTransformed
    /\ Len(result.node) = 2
    /\ result.node[1].constantValue = "number"
    /\ result.node[1].initializer = "AsExpression"
    /\ ~HasConstantValue(result.node[2])
    /\ ValueIn(result.output[1]).kind = "NumericLiteral"
    /\ result.lowered = {}
    /\ NonQualifiedEnumMembers \notin result.enabledBefore
    /\ NonQualifiedEnumMembers \in enabledSubstitutions

----------------------------------------------------------------------------
\* C18: the children of a namespace body.

NamespaceElementVisited == result.op = "namespaceElementVisitor"

\* The child is returned as it is: the same node, nothing below it visited.
ReturnedUnchanged ==
    result.route = "node" /\ result.output = <<result.node>> /\ result.visited = <<>>

\* The child went through visitTypeScript: what came out is a placeholder,
\* nothing, a lowered copy, or the child itself when nothing in it changed.
Lowered ==
    /\ result.route = "visitTypeScript"
    /\ \/ result.node.kind = "FunctionDeclaration" /\ ~result.node.ambient
          /\ result.output = visitFunctionDeclaration(Cur, result.node)
       \/ result.node.kind # "FunctionDeclaration"
          /\ result.output = visitTypeScript(result.node).output

\* C18: an export declaration, an import declaration, an import clause and an
\* import-equals of an external module yield nothing; any other child goes
\* through visitTypeScript iff it contains TypeScript syntax or carries the
\* export modifier, and is returned unchanged otherwise.
C18_NamespaceBodyVisitation ==
    NamespaceElementVisited =>
        IF \/ result.node.kind \in {"ExportDeclaration", "ImportDeclaration", "ImportClause"}
           \/ /\ result.node.kind = "ImportEqualsDeclaration"
              /\ result.node.moduleReference = "ExternalModuleReference"
        THEN result.output = <<>> /\ result.visited = <<>>
        ELSE IF ContainsTypeScript \in result.node.transformFlags \/ result.node.export
        THEN Lowered
        ELSE ReturnedUnchanged

\* C18: an exported function with a body and no TypeScript syntax was
\* lowered because of its export modifier: it comes out with the assignment
\* to the namespace.
C18_Witness ==
    /\ NamespaceElementVisited
    /\ result.node.kind = "FunctionDeclaration"
    /\ result.node.export
    /\ result.node.transformFlags = {}
    /\ result.route = "visitTypeScript"
    /\ Len(result.output) = 2

----------------------------------------------------------------------------
\* C19 and C20: the state saved and restored around a visit.

\* The three variables saveStateAndInvoke restores whatever the node.
ScopeState ==
    <<currentLexicalScope, currentNameScope, currentClassHasParameterProperties>>

SavedScopeState(frame) ==
    <<frame.savedCurrentScope, frame.savedCurrentNameScope,
      frame.savedCurrentClassHasParameterProperties>>

IsSaveStateAndInvoke(frame) == frame.fn = "saveStateAndInvoke"

\* The calls of saveStateAndInvoke that a step enters and stays in, and
\* those it returns from, as positions of the stack after and before it.
CallsEntered ==
    {i \in (Len(stack) + 1)..Len(stack') : IsSaveStateAndInvoke(stack'[i])}

CallsReturned ==
    {i \in (Len(stack') + 1)..Len(stack) : IsSaveStateAndInvoke(stack[i])}

Outermost(calls) == CHOOSE i \in calls : \A j \in calls : i <= j

\* A call that is entered saved the values at its entry.
EntryValuesSaved ==
    \A i \in CallsEntered : SavedScopeState(stack'[i]) = ScopeState

\* After the return of a call the three variables have the values saved at
\* its entry.
ReturnRestoresScopeState ==
    CallsReturned # {} => ScopeState' = SavedScopeState(stack[Outermost(CallsReturned)])

\* A visit that begins and ends within one step leaves them as they were.
WholeVisitKeepsScopeState ==
    (Len(stack') = Len(stack) /\ nextId' # nextId) => ScopeState' = ScopeState

\* C19: every call of saveStateAndInvoke, on any node and at any depth,
\* returns with currentLexicalScope, currentNameScope and
\* currentClassHasParameterProperties equal to their values at its entry,
\* and once transformSourceFile has returned they are as before the call and
\* currentSourceFile is unset.
C19_ScopeBalance ==
    /\ [][EntryValuesSaved /\ ReturnRestoresScopeState /\ WholeVisitKeepsScopeState]_vars
    /\ [](stack = <<>> => /\ ScopeState = <<NoNode, NoNode, FALSE>>
                          /\ currentSourceFile = NoNode)

\* C19: a source file with a class declaration in a block was transformed
\* and transformSourceFile has returned.
C19_Witness ==
    /\ stack = <<>>
    /\ ScopeState = <<NoNode, NoNode, FALSE>>
    /\ currentSourceFile = NoNode
    /\ \E i \in 1..Len(emitted) :
          /\ emitted[i].stmt = "ClassDeclaration"
          /\ emitted[i].container # NoNode
          /\ emitted[i].container # 1

InScopeNode ==
    stack # <<>> /\ IsSaveStateAndInvoke(Top)
        /\ Top.kind \in {"SourceFile", "Block", "CaseBlock", "ModuleBlock"}

InOtherNode ==
    stack # <<>> /\ IsSaveStateAndInvoke(Top)
        /\ Top.kind \notin {"SourceFile", "Block", "CaseBlock", "ModuleBlock"}

\* The visit of a scope-introducing node starts with no merge map, having
\* saved the one in effect: the map of the enclosing scope, and for the body
\* of a namespace the empty one transformModuleBody has just set.
ScopeStartsEmpty ==
    \A i \in CallsEntered :
        stack'[i].kind \in {"SourceFile", "Block", "CaseBlock", "ModuleBlock"} =>
            /\ i = Len(stack')
            /\ currentScopeFirstDeclarationsOfName' = UndefinedMap
            /\ stack'[i].savedCurrentScopeFirstDeclarationsOfName =
                   IF stack'[i].kind = "ModuleBlock" THEN UndefinedMap
                   ELSE currentScopeFirstDeclarationsOfName

\* The return from a block, a case block or a source file leaves the map
\* that was saved, and the return from a class or function declaration the
\* map as it is.
ReturnLeavesMap ==
    (CallsReturned # {} /\ Cardinality(CallsReturned) = Len(stack) - Len(stack')) =>
        LET frame == stack[Outermost(CallsReturned)]
        IN  IF frame.kind \in {"SourceFile", "Block", "CaseBlock"}
            THEN currentScopeFirstDeclarationsOfName' =
                     frame.savedCurrentScopeFirstDeclarationsOfName
            ELSE currentScopeFirstDeclarationsOfName' = currentScopeFirstDeclarationsOfName

CallsOfTransformModuleBodyReturned ==
    {i \in (Len(stack') + 1)..Len(stack) : stack[i].fn = "transformModuleBody"}

\* The return from transformModuleBody and from the visit of the namespace
\* declaration leaves the map transformModuleBody saved, in which the
\* namespace is recorded.
ModuleReturnLeavesMap ==
    CallsOfTransformModuleBodyReturned # {} =>
        LET frame == stack[Outermost(CallsOfTransformModuleBodyReturned)]
        IN  /\ currentScopeFirstDeclarationsOfName' =
                   frame.savedCurrentScopeFirstDeclarationsOfName
            /\ currentScopeFirstDeclarationsOfName'.defined
            /\ currentScopeFirstDeclarationsOfName'.first[frame.name] # NoNode

\* C20: the visit of a source file, block, case block or module block starts
\* with an empty merge map and its return puts back the map in effect
\* before, whatever was recorded inside; the return from any other node
\* leaves the map as the visit left it, with what was recorded.
C20_MergeMapScoping ==
    /\ [][ScopeStartsEmpty /\ ReturnLeavesMap /\ ModuleReturnLeavesMap]_vars
    /\ [](InScopeNode =>
             RestoreState(Cur, Top).currentScopeFirstDeclarationsOfName
                 = Top.savedCurrentScopeFirstDeclarationsOfName)
    /\ [](InOtherNode =>
             RestoreState(Cur, Top).currentScopeFirstDeclarationsOfName
                 = currentScopeFirstDeclarationsOfName)

\* C20: inside a block a class named 1 was visited and its body is being
\* visited; the name is recorded in the map of the block, which the return
\* from the class will leave, while the enclosing source file's saved map
\* does not have it.
C20_Witness ==
    /\ Len(stack) = 3
    /\ stack[1].kind = "SourceFile"
    /\ stack[2].kind = "Block"
    /\ stack[3].kind = "ClassDeclaration"
    /\ currentScopeFirstDeclarationsOfName.defined
    /\ currentScopeFirstDeclarationsOfName.first[1] = stack[3].node
    /\ ~stack[2].savedCurrentScopeFirstDeclarationsOfName.defined
    /\ RestoreState(Cur, Top).currentScopeFirstDeclarationsOfName.first[1] = stack[3].node

----------------------------------------------------------------------------
\* C21: what the return of saveStateAndInvoke does to the merge map.

\* The merge map after the return of the innermost call in progress.
MapAfterReturn == RestoreState(Cur, Top).currentScopeFirstDeclarationsOfName

SavedMap == Top.savedCurrentScopeFirstDeclarationsOfName

\* C21 as stated: after the visit of a scope-introducing node the map is
\* discarded and not the one captured at entry; after any other visit it is
\* the one captured at entry.
C21_MapOnReturn_AsStated ==
    /\ InScopeNode => MapAfterReturn = UndefinedMap
    /\ InOtherNode => MapAfterReturn = SavedMap

\* C21: after the visit of a scope-introducing node the map built inside is
\* dropped and the map is the one captured at entry; after any other visit
\* the map is left as the visit left it, with the names recorded meanwhile,
\* and is not set back to the captured one.
C21_MapOnReturn ==
    /\ InScopeNode => /\ currentLexicalScope = Top.node
                      /\ currentLexicalScope # Top.savedCurrentScope
                      /\ MapAfterReturn = SavedMap
    /\ InOtherNode => /\ currentLexicalScope = Top.savedCurrentScope
                      /\ MapAfterReturn = currentScopeFirstDeclarationsOfName

\* C21: a block is being visited after a declaration whose name is recorded
\* in the enclosing scope: inside, the map is empty, and the return gives
\* the map of the enclosing scope back.
C21_Witness ==
    /\ InScopeNode
    /\ Top.kind = "Block"
    /\ SavedMap.defined
    /\ \E n \in Names : SavedMap.first[n] # NoNode
    /\ currentScopeFirstDeclarationsOfName = UndefinedMap
    /\ MapAfterReturn = SavedMap

----------------------------------------------------------------------------
\* C22: the namespace the lowering is in.

NamespaceBinding == <<currentNamespace, currentNamespaceContainerName>>

\* The calls of transformModuleBody in progress, outermost first.
ModuleBodiesInProgress ==
    SelectSeq(stack, LAMBDA frame : frame.fn = "transformModuleBody")

\* The binding inside the body of the namespace of a frame, and the one
\* outside every namespace.
BindingOf(frame) == <<frame.node, frame.node>>
NoBinding == <<NoNode, NoNode>>

\* The bodies in progress are nested as the bindings saved by them are.
BindingsNested ==
    LET bodies == ModuleBodiesInProgress
    IN  /\ NamespaceBinding = IF bodies = <<>> THEN NoBinding
                              ELSE BindingOf(bodies[Len(bodies)])
        /\ \A i \in 1..Len(bodies) :
              <<bodies[i].savedCurrentNamespace,
                bodies[i].savedCurrentNamespaceContainerName>>
                  = IF i = 1 THEN NoBinding ELSE BindingOf(bodies[i - 1])

\* The members of every lowered enum are assigned to the enum's own
\* container.
EnumBodiesUseOwnContainer ==
    \A i \in 1..Len(emitted) :
        (emitted[i].stmt = "ExpressionStatement"
            /\ emitted[i].originalKind = "EnumDeclaration") =>
            \A j \in 1..Len(emitted[i].body) :
                LET e == emitted[i].body[j].expression
                    inner == IF e.left.argumentExpression.kind = "Assignment"
                             THEN e.left.argumentExpression ELSE e
                IN  inner.left.expression = emitted[i].original

\* The return of transformModuleBody leaves the binding saved at its entry,
\* and the lowering of an enum leaves the binding as it found it.
BindingRestored ==
    /\ CallsOfTransformModuleBodyReturned # {} =>
           LET frame == stack[Outermost(CallsOfTransformModuleBodyReturned)]
           IN  NamespaceBinding' = <<frame.savedCurrentNamespace,
                                     frame.savedCurrentNamespaceContainerName>>
    /\ Len(stack') = Len(stack) => NamespaceBinding' = NamespaceBinding

----------------------------------------------------------------------------
\* The entries of the class alias table.

HasClassAlias(id) == classAliases.defined /\ classAliases.at[id] # NoAlias

ClassVisited == result.op = "visitClassDeclaration"

\* An entry appears only for the class being lowered, and never goes away.
AliasEntriesFollowLowering ==
    \A id \in 1..MaxNodes :
        /\ HasClassAlias(id) => HasClassAlias(id)'
        /\ (~HasClassAlias(id) /\ HasClassAlias(id)')
               => (ClassVisited' /\ result'.node.id = id)

\* C23, as stated: classAliases holds an entry for a lowered class if and only
\* if the oracle reports a constructor self-reference and the class has
\* constructor-level decorators or is wrapped in an immediately-invoked
\* function.
C23_AliasTable_AsStated ==
    ClassVisited =>
        (HasClassAlias(result.node.id)
            <=> /\ result.node.classWithConstructorReference
                /\ \/ ConstructorIsDecorated(result.node)
                   \/ UsesWrapper)

\* C23, amended: classAliases holds an entry for a class if and only if the
\* class has been lowered, the oracle reports a constructor self-reference
\* for it and it has constructor-level decorators; a wrapper function alone
\* gives no entry; entries appear only when their class is lowered and stay.
C23_AliasTable ==
    /\ [](ClassVisited =>
            (HasClassAlias(result.node.id)
                <=> /\ result.node.classWithConstructorReference
                    /\ ConstructorIsDecorated(result.node)))
    /\ [][AliasEntriesFollowLowering]_vars

\* C23: a second class that is wrapped and self-referencing but has no
\* constructor-level decorators is lowered after an aliased first class; the
\* table holds the first class's entry and none for the second.
C23_Witness ==
    /\ ClassLowered
    /\ result.node.id = SecondClass
    /\ UsesWrapper
    /\ result.node.classWithConstructorReference
    /\ ~ConstructorIsDecorated(result.node)
    /\ HasClassAlias(FirstClass)
    /\ ~HasClassAlias(SecondClass)

----------------------------------------------------------------------------
\* The traversal with the lowering of the classes it meets: one transformer
\* instance over a sequence of source files with namespaces, enums and
\* decorated classes.

\* A decorated class declaration with the oracle's answer r.
DecoratedClass(id, r) ==
    [id |-> id, name |-> 1, export |-> FALSE, default |-> FALSE,
     decorators |-> TRUE, typeParameters |-> FALSE, derived |-> FALSE,
     classWithConstructorReference |-> r, members |-> <<>>]

\* visitClassDeclaration, called by the visitor inside saveStateAndInvoke on
\* the class declaration whose visit is in progress.
LowerVisitedClass(r) ==
    /\ stack # <<>>
    /\ Top.fn = "saveStateAndInvoke"
    /\ Top.kind = "ClassDeclaration"
    /\ ~Top.leaf
    /\ ~(result.op = "visitClassDeclaration" /\ result.node.id = Top.node)
    /\ \E lowered \in {visitClassDeclaration(DecoratedClass(Top.node, r),
                                             ClassContext, ClassEnv)} :
           /\ classAliases' = lowered.c.classAliases
           /\ enabledSubstitutions' = lowered.c.enabledSubstitutions
           /\ registrations' = lowered.c.registrations
           /\ hoistedVariables' = lowered.c.hoisted
           /\ nextAutoGenerateId' = lowered.c.nextAutoGenerateId
           /\ result' = [op |-> "visitClassDeclaration",
                         node |-> DecoratedClass(Top.node, r),
                         facts |-> lowered.facts, accumulated |-> lowered.accumulated,
                         output |-> lowered.statements]
    /\ UNCHANGED <<nextId, outsideClass>>

\* The declarations all carry one name and no export modifier: neither
\* matters to the substitutions that get enabled.
NextSubstitutions ==
    \/ \E d \in BOOLEAN : BeginTransformSourceFile(d)
    \/ EndTransformSourceFile
    \/ \E a \in BOOLEAN : EnterNode("ClassDeclaration", 1, a)
    \/ \E r \in BOOLEAN : LowerVisitedClass(r)
    \/ ExitNode
    \/ \E a \in BOOLEAN, i \in BOOLEAN, d \in BOOLEAN :
          EnterModuleDeclaration(1, FALSE, a, i, d)
    \/ \E d \in BOOLEAN : VisitDottedBody(1, d)
    \/ ExitModuleDeclaration
    \/ \E c \in BOOLEAN, a \in BOOLEAN, m \in ScopeEnumBodies :
          VisitEnumDeclaration(1, c, FALSE, a, m)

SpecSubstitutions == InitScope /\ [][NextSubstitutions]_vars

----------------------------------------------------------------------------
\* C24: the classes of substitutions.

SubstitutionClasses == {ClassAliases, NamespaceExports, NonQualifiedEnumMembers}

RegistrationsMadeFor(flag) == SelectSeq(registrations, LAMBDA reg : reg.for = flag)

\* Each class that is enabled has made its set-up calls once, and a class
\* that is not enabled has made none.
RegisteredOncePerClass ==
    \A flag \in SubstitutionClasses :
        RegistrationsMadeFor(flag) =
            IF flag \in enabledSubstitutions THEN RegistrationsFor(flag) ELSE <<>>

\* C24: over any sequence of source-file transformations of one transformer
\* instance, enabledSubstitutions only gains flags, the set-up calls of a
\* class of substitutions (enableSubstitution, enableEmitNotification, the
\* creation of classAliases) have been made exactly once if the class is
\* enabled and not at all otherwise, and classAliases, once created, stays.
C24_SubstitutionsMonotonic ==
    /\ [][enabledSubstitutions \subseteq enabledSubstitutions']_vars
    /\ []RegisteredOncePerClass
    /\ [](classAliases.defined <=> ClassAliases \in enabledSubstitutions)
    /\ [][classAliases.defined => classAliases'.defined]_vars

\* C24: a second source file is being transformed after a namespace of the
\* first one enabled the namespace exports; the flag and its set-up calls
\* are as the first file left them.
C24_Witness ==
    /\ \E i \in 1..Len(emitted) :
          /\ emitted[i].originalKind = "ModuleDeclaration"
          /\ emitted[i].stmt = "VariableStatement"
          /\ emitted[i].original < currentSourceFile
    /\ stack # <<>>
    /\ Top.kind = "SourceFile"
    /\ Top.node = currentSourceFile
    /\ enabledSubstitutions = {NamespaceExports}
    /\ registrations = RegistrationsFor(NamespaceExports)

----------------------------------------------------------------------------
\* Print time: the emit hook and the substitution of identifiers.

isTransformedModuleDeclaration(node) == node.originalKind = "ModuleDeclaration"
isTransformedEnumDeclaration(node) == node.originalKind = "EnumDeclaration"

\* What onEmitNode reads and writes.
EmitState ==
    [applicableSubstitutions |-> applicableSubstitutions,
     currentSourceFile |-> currentSourceFile]

\* A version that makes a class applicable whether or not it is enabled.
onEmitNode_IgnoresEnabled(p, en, node) ==
    [applicableSubstitutions |->
         p.applicableSubstitutions
             \cup (IF isTransformedModuleDeclaration(node) THEN {NamespaceExports} ELSE {})
             \cup (IF isTransformedEnumDeclaration(node)
                   THEN {NonQualifiedEnumMembers} ELSE {}),
     currentSourceFile |-> IF node.kind = "SourceFile" THEN node.id
                           ELSE p.currentSourceFile]

\* onEmitNode, up to the call of the previous hook: the values in effect
\* while the inner emit runs.
onEmitNode(p, en, node) ==
    [applicableSubstitutions |->
         p.applicableSubstitutions
             \cup (IF NamespaceExports \in en /\ isTransformedModuleDeclaration(node)
                   THEN {NamespaceExports} ELSE {})
             \cup (IF NonQualifiedEnumMembers \in en /\ isTransformedEnumDeclaration(node)
                   THEN {NonQualifiedEnumMembers} ELSE {}),
     currentSourceFile |-> IF node.kind = "SourceFile" THEN node.id
                           ELSE p.currentSourceFile]

\* The call of onEmitNode in progress, with the two values it saved.
EmitFrame(p, node) ==
    [fn |-> "onEmitNode", node |-> node,
     savedApplicableSubstitutions |-> p.applicableSubstitutions,
     savedCurrentSourceFile |-> p.currentSourceFile]

\* The nodes the printer notifies the hook of: a source file, the statement
\* a namespace or an enum was lowered to, and a statement that is its own
\* original.
EmittedNodes(id) ==
    {[id |-> id, kind |-> k[1], originalKind |-> k[2]] :
        k \in {<<"SourceFile", "SourceFile">>,
               <<"ExpressionStatement", "ModuleDeclaration">>,
               <<"ExpressionStatement", "EnumDeclaration">>,
               <<"ExpressionStatement", "ExpressionStatement">>}}

\* The identifiers the printer asks a substitute for: the oracle's answers
\* about the export container and the constructor reference, and whether the
\* name is generated or marked as a local name.
EmittedIdentifiers ==
    {[text |-> 2, constructorReferenceInClass |-> d # NoNode, declaration |-> d,
      generated |-> g[1], localName |-> g[2], exportContainer |-> c] :
        d \in {NoNode, FirstClass},
        g \in {<<FALSE, FALSE>>, <<TRUE, FALSE>>, <<FALSE, TRUE>>},
        c \in {"none", "SourceFile", "ModuleDeclaration", "EnumDeclaration"}}

\* The transformation is over: any of the substitutions may have been
\* enabled by it, and FirstClass has an alias if class aliases were.
InitEmit ==
    /\ compilerOptions = DefaultOptions
    /\ IdleScope
    /\ enabledSubstitutions \in SUBSET {ClassAliases, NamespaceExports,
                                        NonQualifiedEnumMembers}
    /\ registrations =
           (IF NamespaceExports \in enabledSubstitutions
            THEN RegistrationsFor(NamespaceExports) ELSE <<>>)
           \o (IF NonQualifiedEnumMembers \in enabledSubstitutions
               THEN RegistrationsFor(NonQualifiedEnumMembers) ELSE <<>>)
           \o (IF ClassAliases \in enabledSubstitutions
               THEN RegistrationsFor(ClassAliases) ELSE <<>>)
    /\ classAliases =
           IF ClassAliases \in enabledSubstitutions
           THEN [defined |-> TRUE,
                 at |-> [i \in 1..MaxNodes |->
                            IF i = FirstClass THEN UniqueName(1, 1) ELSE NoAlias]]
           ELSE UndefinedAliases
    /\ hoistedVariables = <<>>
    /\ nextAutoGenerateId = 1
    /\ applicableSubstitutions = {}
    /\ result = NoResult

outsideEmit ==
    <<compilerOptions, currentNamespace, currentNamespaceContainerName,
      currentLexicalScope, currentNameScope, currentScopeFirstDeclarationsOfName,
      currentClassHasParameterProperties, enabledSubstitutions, registrations,
      classVars>>

\* The printer calls onEmitNode; the hook saves the two values, sets them for
\* the node and calls the previous hook, which emits the node.  nextId numbers
\* the calls of onEmitNode and emitted lists the calls of the previous hook.
EnterEmitNode(node) ==
    /\ nextId <= MaxNodes
    /\ node.id = nextId
    /\ node.kind = "SourceFile" <=> stack = <<>>
    /\ \E inside \in {onEmitNode(EmitState, enabledSubstitutions, node)} :
           /\ applicableSubstitutions' = inside.applicableSubstitutions
           /\ currentSourceFile' = inside.currentSourceFile
    /\ stack' = Append(stack, EmitFrame(EmitState, node))
    /\ emitted' = Append(emitted, nextId)
    /\ nextId' = nextId + 1
    /\ result' = [op |-> "onEmitNode", node |-> node]
    /\ UNCHANGED outsideEmit

\* The previous hook returns and onEmitNode puts the two values back.
ReturnFromEmitNode ==
    /\ stack # <<>>
    /\ Top.fn = "onEmitNode"
    /\ applicableSubstitutions' = Top.savedApplicableSubstitutions
    /\ currentSourceFile' = Top.savedCurrentSourceFile
    /\ stack' = Pop(stack)
    /\ result' = [op |-> "onEmitNodeReturned", node |-> Top.node]
    /\ UNCHANGED <<emitted, nextId>>
    /\ UNCHANGED outsideEmit

NextEmit ==
    \/ \E node \in EmittedNodes(nextId) : EnterEmitNode(node)
    \/ ReturnFromEmitNode
    \/ \E node \in EmittedIdentifiers : SubstituteExpressionIdentifier(node)

SpecEmit == InitEmit /\ [][NextEmit]_vars

----------------------------------------------------------------------------
\* C25: the emit hook saves and restores.

InEmitNode == stack # <<>> /\ Top.fn = "onEmitNode"

\* Every call of onEmitNode made so far has called the previous hook once.
PreviousHookCalledOnce == emitted = [i \in 1..(nextId - 1) |-> i]

\* The substitutions that apply while the inner emit of the innermost node
\* runs: those that applied at entry, and the node's own class iff enabled.
ApplicableInside ==
    /\ Top.savedApplicableSubstitutions \subseteq applicableSubstitutions
    /\ applicableSubstitutions \ Top.savedApplicableSubstitutions
           \subseteq {NamespaceExports, NonQualifiedEnumMembers}
    /\ isTransformedModuleDeclaration(Top.node) =>
           (NamespaceExports \in applicableSubstitutions
               <=> NamespaceExports \in enabledSubstitutions)
    /\ isTransformedEnumDeclaration(Top.node) =>
           (NonQualifiedEnumMembers \in applicableSubstitutions
               <=> NonQualifiedEnumMembers \in enabledSubstitutions)
    /\ ~isTransformedModuleDeclaration(Top.node) =>
           (NamespaceExports \in applicableSubstitutions
               <=> NamespaceExports \in Top.savedApplicableSubstitutions)
    /\ ~isTransformedEnumDeclaration(Top.node) =>
           (NonQualifiedEnumMembers \in applicableSubstitutions
               <=> NonQualifiedEnumMembers \in Top.savedApplicableSubstitutions)

\* A call saves the values at its entry, and its return leaves them.
EmitStateSavedAndRestored ==
    /\ Len(stack') = Len(stack) + 1 =>
           /\ Top'.savedApplicableSubstitutions = applicableSubstitutions
           /\ Top'.savedCurrentSourceFile = currentSourceFile
    /\ Len(stack') = Len(stack) - 1 =>
           /\ applicableSubstitutions' = Top.savedApplicableSubstitutions
           /\ currentSourceFile' = Top.savedCurrentSourceFile

\* C25: each call of onEmitNode invokes the previous emit hook exactly once,
\* and on return applicableSubstitutions and currentSourceFile have the
\* values they had at entry; while the inner emit runs for a node whose
\* original is a namespace (an enum) declaration, NamespaceExports
\* (NonQualifiedEnumMembers) is applicable iff it is enabled, next to
\* whatever was applicable at entry.
C25_EmitHookSaveRestore ==
    /\ [](PreviousHookCalledOnce /\ (InEmitNode => ApplicableInside))
    /\ [][EmitStateSavedAndRestored]_vars
    /\ [](stack = <<>> => applicableSubstitutions = {} /\ currentSourceFile = NoNode)

\* C25: the emit of a lowered enum inside a lowered namespace of a source
\* file has returned; both classes are enabled, and inside the namespace
\* only the namespace exports apply again.
C25_Witness ==
    /\ result.op = "onEmitNodeReturned"
    /\ isTransformedEnumDeclaration(result.node)
    /\ InEmitNode
    /\ isTransformedModuleDeclaration(Top.node)
    /\ {NamespaceExports, NonQualifiedEnumMembers} \subseteq enabledSubstitutions
    /\ applicableSubstitutions = {NamespaceExports}
    /\ currentSourceFile = 1
    /\ Len(stack) = 2

----------------------------------------------------------------------------
\* The lowering of one class declaration, inside or outside a namespace.

\* Members that decide the facts: none, a plain property, a static property
\* with an initializer, a decorated property, a constructor with a decorated
\* parameter.
ExportedClassMembers ==
    {<<>>,
     <<Member("PropertyDeclaration", 2, FALSE, FALSE, FALSE, FALSE, <<>>)>>,
     <<Member("PropertyDeclaration", 1, TRUE, FALSE, FALSE, TRUE, <<>>)>>,
     <<Member("PropertyDeclaration", 1, FALSE, TRUE, FALSE, FALSE, <<>>)>>,
     <<Member("Constructor", NoName, FALSE, FALSE, TRUE, FALSE, DecoratedParameter)>>}

ExportedClassNodes ==
    {[id |-> FirstClass, name |-> e.name, export |-> e.export, default |-> e.default,
      decorators |-> d, typeParameters |-> t, derived |-> FALSE,
      classWithConstructorReference |-> FALSE, members |-> ms] :
        e \in ClassExportShapes, d \in BOOLEAN, t \in BOOLEAN,
        ms \in ExportedClassMembers}

\* The namespace the class is a statement of, if any.
EnclosingNamespace == 2

InitClassExport ==
    /\ compilerOptions \in ClassOptions
    /\ currentSourceFile = NoNode
    /\ currentNamespace \in {NoNode, EnclosingNamespace}
    /\ currentNamespaceContainerName = currentNamespace
    /\ currentLexicalScope = NoNode
    /\ currentNameScope = NoNode
    /\ currentScopeFirstDeclarationsOfName = UndefinedMap
    /\ currentClassHasParameterProperties = FALSE
    /\ stack = <<>>
    /\ emitted = <<>>
    /\ nextId = 1
    /\ enabledSubstitutions = {}
    /\ registrations = <<>>
    /\ IdleClasses
    /\ applicableSubstitutions = {}
    /\ result \in {Input(node) : node \in
                      {n \in ExportedClassNodes :
                          n.default => currentNamespace = NoNode}}

\* visitClassDeclaration on the class.
VisitExportedClass ==
    /\ result.op = "input"
    /\ \E r \in {visitClassDeclaration(result.node, ClassContext, ClassEnv)} :
           /\ classAliases' = r.c.classAliases
           /\ enabledSubstitutions' = r.c.enabledSubstitutions
           /\ registrations' = r.c.registrations
           /\ hoistedVariables' = r.c.hoisted
           /\ nextAutoGenerateId' = r.c.nextAutoGenerateId
           /\ result' = [op |-> "visitClassDeclaration", node |-> result.node,
                         facts |-> r.facts, accumulated |-> r.accumulated,
                         output |-> r.statements]
    /\ UNCHANGED <<nextId, outsideClass>>

NextClassExport == VisitExportedClass

SpecClassExport == InitClassExport /\ [][NextClassExport]_vars

----------------------------------------------------------------------------
\* C26: the export of a class.

\* The modifiers on the class declaration that comes out: those of the node
\* itself when it is returned through visitEachChild, those of the new class
\* declaration otherwise (none when it became a class expression).
EmittedClassModifiers ==
    IF result.accumulated = <<>>
    THEN (IF result.node.export THEN <<"export">> ELSE <<>>)
         \o (IF result.node.default THEN <<"default">> ELSE <<>>)
    ELSE IF result.accumulated[1].stmt = "ClassDeclaration"
    THEN result.accumulated[1].modifiers
    ELSE <<>>

IsNamespaceMemberAssignment(s) ==
    /\ s.stmt = "ExpressionStatement"
    /\ "left" \in DOMAIN s.expression
    /\ s.expression.left.kind = "ExternalModuleOrNamespaceExportName"

IsTailExport(s) ==
    \/ s.stmt \in {"ExportDefault", "ExternalModuleExport"}
    \/ IsNamespaceMemberAssignment(s)

TailExports == SelectSeq(result.output, IsTailExport)

\* The tail statement is the one the way of exporting calls for.
TailExportAsStated ==
    IF currentNamespace # NoNode
    THEN IsNamespaceMemberAssignment(TailExports[1])
    ELSE /\ UsesWrapper \/ ConstructorIsDecorated(result.node)
         /\ TailExports[1].stmt = IF result.node.default THEN "ExportDefault"
                                  ELSE "ExternalModuleExport"

\* C26: an exported class is exported exactly once: either the class
\* declaration keeps its export modifiers and no tail export statement is
\* added, or the modifiers are dropped and exactly one tail statement is
\* added (the namespace member assignment in a namespace, else export default
\* or the named external export when the class is wrapped or has
\* constructor-level decorators); a class that is not exported gets neither.
C26_ExportedOnce ==
    result.op = "visitClassDeclaration" =>
        IF result.node.export
        THEN \/ /\ "export" \in {EmittedClassModifiers[i] :
                                    i \in 1..Len(EmittedClassModifiers)}
                /\ Len(EmittedClassModifiers) = IF result.node.default THEN 2 ELSE 1
                /\ TailExports = <<>>
             \/ /\ EmittedClassModifiers = <<>>
                /\ Len(TailExports) = 1
                /\ TailExportAsStated
        ELSE /\ EmittedClassModifiers = <<>>
             /\ TailExports = <<>>

\* C26: a class exported from a namespace, wrapped because of its static
\* initialized property: no modifier is left and the namespace member
\* assignment follows the wrapper.
C26_Witness ==
    /\ result.op = "visitClassDeclaration"
    /\ result.node.export
    /\ currentNamespace = EnclosingNamespace
    /\ UsesWrapper
    /\ EmittedClassModifiers = <<>>
    /\ Len(result.output) = 3
    /\ IsNamespaceMemberAssignment(result.output[2])
    /\ result.output[2].expression.left.ns = EnclosingNamespace

----------------------------------------------------------------------------
\* C27: classes and functions in the merge map.

IsClassOrFunction(e) == e.originalKind \in {"ClassDeclaration", "FunctionDeclaration"}

\* The statement the visit that has just begun stands for.
LastEmitted == emitted[Len(emitted)]

\* The first declaration recorded for a name, if any.
FirstRecorded(map, name) == IF map.defined THEN map.first[name] ELSE NoNode

\* The visit of a class or function declaration begins: a named one that is
\* not ambient is recorded unless its name is taken, and nothing else in
\* the map changes; an ambient one leaves the map as it is.
ClassOrFunctionRecorded ==
    (/\ Len(stack') = Len(stack) + 1
     /\ Len(emitted') = Len(emitted) + 1
     /\ IsClassOrFunction(LastEmitted')) =>
        LET e == LastEmitted'
            map == currentScopeFirstDeclarationsOfName
        IN  IF e.stmt = "NotEmittedStatement" \/ e.name = NoName
            THEN currentScopeFirstDeclarationsOfName' = map
            ELSE /\ currentScopeFirstDeclarationsOfName'.defined
                 /\ \A n \in Names :
                       currentScopeFirstDeclarationsOfName'.first[n] =
                           IF n = e.name /\ FirstRecorded(map, n) = NoNode
                           THEN e.original
                           ELSE FirstRecorded(map, n)

SameNameAndPlace(e, f) == e.name = f.name /\ e.container = f.container

\* A namespace or enum after a recorded class or function of its name gets a
\* merge marker; one that only declarations that were not emitted precede
\* gets its variable statement.
MergesWithClassOrFunction ==
    \A i \in 1..Len(emitted) :
        IsVarOrMarker(emitted[i]) =>
            /\ (\E j \in 1..(i - 1) :
                   /\ IsClassOrFunction(emitted[j])
                   /\ emitted[j].stmt # "NotEmittedStatement"
                   /\ SameNameAndPlace(emitted[j], emitted[i]))
                   => emitted[i].stmt = "MergeDeclarationMarker"
            /\ (\A j \in 1..(i - 1) :
                   SameNameAndPlace(emitted[j], emitted[i])
                       => emitted[j].stmt = "NotEmittedStatement")
                   => emitted[i].stmt = "VariableStatement"

\* C27: a named class or function declaration that is not ambient is
\* recorded in the merge map of the scope it is visited in as the first
\* declaration of its name, unless one is recorded already, so a namespace or
\* enum of that name that follows in the scope gets a merge marker and no
\* variable statement; an ambient class or function declaration is not
\* recorded, so a namespace that follows only an ambient declaration of its
\* name gets its variable statement.
C27_ClassAndFunctionMerging ==
    /\ [][ClassOrFunctionRecorded]_vars
    /\ []MergesWithClassOrFunction

\* C27: a function declaration was visited and a namespace of the same name
\* follows it in the source file: it got a merge marker.
C27_Witness ==
    /\ Len(emitted) >= 2
    /\ emitted[1].stmt = "FunctionDeclaration"
    /\ emitted[2].stmt = "MergeDeclarationMarker"
    /\ emitted[2].originalKind = "ModuleDeclaration"
    /\ SameNameAndPlace(emitted[1], emitted[2])
    /\ FirstRecorded(Top.savedCurrentScopeFirstDeclarationsOfName, emitted[1].name)
           = emitted[1].original

----------------------------------------------------------------------------
\* serializeTypeList on the constituents of a union or an intersection.

\* The constituents the lists are made of: those of the annotations above,
\* and a template literal type.
ListConstituents == Constituents \cup {TypeNode("TemplateLiteralType")}

InitTypeList ==
    /\ compilerOptions \in SerializerOptions
    /\ currentSourceFile = ModuleFile
    /\ currentNamespace = NoNode
    /\ currentNamespaceContainerName = NoNode
    /\ currentLexicalScope = currentSourceFile
    /\ currentNameScope = NoNode
    /\ currentScopeFirstDeclarationsOfName = UndefinedMap
    /\ currentClassHasParameterProperties = FALSE
    /\ stack = <<>>
    /\ emitted = <<>>
    /\ nextId = 1
    /\ enabledSubstitutions = {}
    /\ registrations = <<>>
    /\ IdleClasses
    /\ applicableSubstitutions = {}
    /\ result \in {Input(types) : types \in SeqsUpTo(ListConstituents, MaxConstituents)}

\* serializeTypeList on the list; the temporary variables it creates are
\* hoisted.
SerializeTypeList ==
    /\ result.op = "input"
    /\ \E r \in {serializeTypeList(compilerOptions, ClassContext, FALSE, result.node)} :
           /\ result' = [op |-> "serializeTypeList", node |-> result.node,
                         output |-> r.value]
           /\ hoistedVariables' = r.c.hoisted
           /\ nextAutoGenerateId' = r.c.nextAutoGenerateId
    /\ UNCHANGED <<scopeVars, classAliases, applicableSubstitutions>>

NextTypeList == SerializeTypeList

SpecTypeList == InitTypeList /\ [][NextTypeList]_vars

----------------------------------------------------------------------------
\* C28: the order of the constituents.

TypeListSerialized == result.op = "serializeTypeList"

\* The lists with the same constituents in another order.
Reorderings(types) ==
    {[i \in 1..Len(types) |-> types[p[i]]] :
        p \in {q \in [1..Len(types) -> 1..Len(types)] :
                  \A i, j \in 1..Len(types) : q[i] = q[j] => i = j}}

\* The kind of a result: the constructor an identifier names, else the form.
ResultKind(e) == IF isIdentifier(e) THEN e.text ELSE e.kind

SerializedKind(types) ==
    ResultKind(serializeTypeList(compilerOptions,
                   [ClassContext EXCEPT !.nextAutoGenerateId = 1, !.hoisted = <<>>],
                   FALSE, types).value)

\* serializeTypeNode returns for every constituent of the list.
EveryConstituentHasAForm(types) ==
    \A i \in 1..Len(types) : SerializedKind(<<types[i]>>) # ResultKind(DebugFailure)

\* C28, as stated: for every list of type nodes and every reordering of it
\* serializeTypeList returns the same kind of result, with and without
\* strictNullChecks.
C28_OrderIndependent_AsStated ==
    TypeListSerialized =>
        \A types \in Reorderings(result.node) :
            SerializedKind(types) = ResultKind(result.output)

\* C28, over the lists serializeTypeNode has a form for: the kind of the
\* result does not depend on the order of the constituents.
C28_OrderIndependentWhereTotal ==
    (TypeListSerialized /\ EveryConstituentHasAForm(result.node)) =>
        \A types \in Reorderings(result.node) :
            SerializedKind(types) = ResultKind(result.output)

\* C28: `any | T` with T a template literal type gives Object, and `T | any`
\* would fail.
C28_Witness ==
    /\ TypeListSerialized
    /\ result.node = <<TypeNode("AnyKeyword"), TypeNode("TemplateLiteralType")>>
    /\ result.output = Identifier("Object")
    /\ SerializedKind(<<result.node[2], result.node[1]>>) = ResultKind(DebugFailure)

----------------------------------------------------------------------------
\* C29: the qualification of identifiers at print time.

IdentifierSubstituted == result.op = "substituteExpressionIdentifier"

\* The identifier came out as a property access on its container.
Qualified == result.output[1].kind = "PropertyAccessExpression"

\* The identifier came out as a clone of the alias of its class.
ReplacedByAlias == result.output[1].kind = "CloneOfUniqueName"

\* The printer is inside the emit of a lowered namespace, or enum.
InsideLowered(originalKind) ==
    \E i \in 1..Len(stack) :
        stack[i].fn = "onEmitNode" /\ stack[i].node.originalKind = originalKind

\* The class alias substitution has an alias for the identifier.
HasAliasToUse ==
    /\ ClassAliases \in enabledSubstitutions
    /\ result.node.constructorReferenceInClass
    /\ result.node.declaration # NoNode
    /\ classAliases.at[result.node.declaration] # NoAlias

\* C29: an identifier is rewritten to a property access on its container
\* only while the printer is inside the emit of a lowered namespace or enum
\* declaration, and only when the oracle's export container is a namespace
\* with NamespaceExports applicable or an enum with NonQualifiedEnumMembers
\* applicable; generated identifiers, local names, identifiers whose
\* container is the source file or that have none, and identifiers printed
\* outside every namespace and enum are never qualified; and where a class
\* alias is to be used, the alias is what comes out.
C29_Qualification ==
    IdentifierSubstituted =>
        /\ Qualified =>
              /\ InsideLowered("ModuleDeclaration") \/ InsideLowered("EnumDeclaration")
              /\ \/ /\ result.node.exportContainer = "ModuleDeclaration"
                    /\ NamespaceExports \in applicableSubstitutions
                    /\ InsideLowered("ModuleDeclaration")
                 \/ /\ result.node.exportContainer = "EnumDeclaration"
                    /\ NonQualifiedEnumMembers \in applicableSubstitutions
                    /\ InsideLowered("EnumDeclaration")
        /\ (\/ result.node.generated
            \/ result.node.localName
            \/ result.node.exportContainer \in {"none", "SourceFile"}
            \/ ~(InsideLowered("ModuleDeclaration") \/ InsideLowered("EnumDeclaration")))
               => ~Qualified
        /\ HasAliasToUse => ReplacedByAlias /\ ~Qualified

\* C29: inside a lowered namespace, with both substitutions enabled, an
\* exported name of a namespace that is also a constructor reference of the
\* aliased class comes out as the alias, not qualified.
C29_Witness ==
    /\ IdentifierSubstituted
    /\ InsideLowered("ModuleDeclaration")
    /\ NamespaceExports \in applicableSubstitutions
    /\ result.node.exportContainer = "ModuleDeclaration"
    /\ ~result.node.generated /\ ~result.node.localName
    /\ HasAliasToUse
    /\ ReplacedByAlias

----------------------------------------------------------------------------
\* The names of class elements.

\* Whether the expression of a computed name is an identifier or a literal.
isSimpleInlineableExpression(expression) == expression \in {"Identifier", "StringLiteral"}

GeneratedNameForName == [kind |-> "GeneratedNameForNode", text |-> NoName, autoGenerateId |-> 0]

\* A version that hoists every computed name that cannot be inlined.
visitPropertyNameOfClassElement_WheneverComputed(member, hasParameterProperties) ==
    IF /\ member.name.kind = "ComputedPropertyName"
       /\ ~isSimpleInlineableExpression(member.name.expression)
    THEN [name |-> [kind |-> "ComputedPropertyName",
                    expression |-> Assignment(GeneratedNameForName,
                                              Expr(member.name.expression))],
          hoisted |-> <<GeneratedNameForName>>]
    ELSE [name |-> member.name, hoisted |-> <<>>]

\* visitPropertyNameOfClassElement; hasParameterProperties is the value of
\* currentClassHasParameterProperties.
visitPropertyNameOfClassElement(member, hasParameterProperties) ==
    IF /\ member.name.kind = "ComputedPropertyName"
       /\ \/ ~member.static /\ hasParameterProperties
          \/ member.decorators
       /\ ~isSimpleInlineableExpression(member.name.expression)
    THEN [name |-> [kind |-> "ComputedPropertyName",
                    expression |-> Assignment(GeneratedNameForName,
                                              Expr(member.name.expression))],
          hoisted |-> <<GeneratedNameForName>>]
    ELSE [name |-> member.name, hoisted |-> <<>>]

\* The members whose name is visited: properties, methods and accessors with
\* a plain or a computed name.
NamedMembers ==
    {[name |-> n, static |-> s, decorators |-> d] :
        n \in {[kind |-> "Identifier", expression |-> "none"],
               [kind |-> "ComputedPropertyName", expression |-> "Identifier"],
               [kind |-> "ComputedPropertyName", expression |-> "CallExpression"]},
        s \in BOOLEAN, d \in BOOLEAN}

\* The name of a member of the class whose visit is in progress is visited;
\* classHasParameterProperties says whether the constructor of that class has
\* parameter properties.
VisitPropertyNameOfClassElement(member, classHasParameterProperties) ==
    /\ stack # <<>>
    /\ Top.fn = "saveStateAndInvoke"
    /\ Top.kind = "ClassDeclaration"
    /\ ~Top.leaf
    /\ Len(hoistedVariables) < MaxMembers
    /\ \E r \in {visitPropertyNameOfClassElement(member,
                                                 currentClassHasParameterProperties)} :
           /\ hoistedVariables' = hoistedVariables \o r.hoisted
           /\ result' = [op |-> "visitPropertyNameOfClassElement", node |-> member,
                         classHasParameterProperties |-> classHasParameterProperties,
                         output |-> r.name, hoisted |-> r.hoisted]
    /\ UNCHANGED <<scopeVars, classAliases, nextAutoGenerateId, applicableSubstitutions>>

NextPropertyName ==
    \/ \E d \in BOOLEAN : BeginTransformSourceFile(d)
    \/ EndTransformSourceFile
    \/ \E k \in {"Block", "ClassDeclaration"}, n \in {NoName, 1}, a \in BOOLEAN :
          EnterNode(k, n, a)
    \/ ExitNode
    \/ \E member \in NamedMembers, p \in BOOLEAN :
          VisitPropertyNameOfClassElement(member, p)

SpecPropertyName == InitScope /\ [][NextPropertyName]_vars

----------------------------------------------------------------------------
\* C30: the class's parameter properties and the names of its members.

PropertyNameVisited == result.op = "visitPropertyNameOfClassElement"

\* The name came out as an assignment to a generated variable that was
\* hoisted.
NameHoisted ==
    /\ result.hoisted # <<>>
    /\ result.output.kind = "ComputedPropertyName"
    /\ result.output.expression.kind = "Assignment"

====
